---- MODULE Spec2Model ----
(***************************************************************************)
(* A model of replaceDOMText (src/src/replaceDOMText.ts): the Finder that  *)
(* aggregates the text of a DOM subtree, searches it, walks the live tree  *)
(* to resolve every match into portions, replaces the touched text nodes   *)
(* and records the inverse operations that revert() replays.               *)
(*                                                                         *)
(* Text is a sequence of one-character strings.  A document is a sequence  *)
(* of node records; a node's identity is its index in that sequence.       *)
(***************************************************************************)
EXTENDS Integers, Sequences, FiniteSets, TLC

(***************************************************************************)
(* Bounds of the model.                                                    *)
(***************************************************************************)
\* The documents explored have at most MaxSegs top-level children under the
\* root, each drawn from Segments.
MaxSegs == 2
\* revert() is called at most MaxReverts times on a handle.
MaxReverts == 2

(***************************************************************************)
(* Generic helpers.                                                        *)
(***************************************************************************)
\* The null reference (null / undefined node).
None == 0

Range(s) == {s[i] : i \in 1..Len(s)}

\* The element of a one-element set.
The(S) == CHOOSE v \in S : TRUE

\* Op(e), with e evaluated once and Op applied to its value.
Bind(e, Op(_)) == The({Op(v) : v \in {e}})

Min(a, b) == IF a < b THEN a ELSE b

Max(a, b) == IF a > b THEN a ELSE b

IndexOf(s, x) == CHOOSE i \in 1..Len(s) : s[i] = x

RECURSIVE Concat(_)
Concat(ss) == IF Len(ss) = 0 THEN <<>> ELSE Head(ss) \o Concat(Tail(ss))

\* String.prototype.substring(a, b): both ends clamped to [0, length], and
\* swapped when a > b.
Substring(s, a, b) ==
  LET ca == Max(0, Min(a, Len(s)))
      cb == Max(0, Min(b, Len(s)))
  IN  SubSeq(s, Min(ca, cb) + 1, Max(ca, cb))

\* String.prototype.substring(a): to the end of the string.
SubstringFrom(s, a) == Substring(s, a, Len(s))

(***************************************************************************)
(* The tree adapter: DOM nodes and the DOM primitives the Finder calls.    *)
(***************************************************************************)
\* A Text node.  foreign marks a node whose nodeType is TEXT_NODE but which
\* is not an instance of the realm's Text constructor.
TextNode(data, foreign) ==
  [kind |-> "text", tag |-> "", data |-> data, kids |-> <<>>,
   foreign |-> foreign, cls |-> ""]

ElemNode(tag, kids) ==
  [kind |-> "elem", tag |-> tag, data |-> <<>>, kids |-> kids,
   foreign |-> FALSE, cls |-> ""]

IsTextNodeType(t, n) == t[n].kind = "text"

IsElementNodeType(t, n) == t[n].kind = "elem"

\* node instanceof Text
InstanceOfText(t, n) == t[n].kind = "text" /\ ~t[n].foreign

ParentNode(t, n) ==
  IF \E p \in 1..Len(t) : n \in Range(t[p].kids)
  THEN CHOOSE p \in 1..Len(t) : n \in Range(t[p].kids)
  ELSE None

NextSibling(t, n) ==
  LET p == ParentNode(t, n)
  IN  IF p = None THEN None
      ELSE LET i == IndexOf(t[p].kids, n)
           IN  IF i < Len(t[p].kids) THEN t[p].kids[i + 1] ELSE None

FirstChild(t, n) == IF Len(t[n].kids) = 0 THEN None ELSE t[n].kids[1]

Without(s, x) == SelectSeq(s, LAMBDA y : y # x)

\* Takes n out of its parent's child list, if it has a parent.
Detach(t, n) ==
  LET p == ParentNode(t, n)
  IN  IF p = None THEN t ELSE [t EXCEPT ![p].kids = Without(@, n)]

RemoveChild(t, p, n) == [t EXCEPT ![p].kids = Without(@, n)]

InsertBefore(t, p, new, ref) ==
  Bind(Detach(t, new), LAMBDA d :
    LET i == IndexOf(d[p].kids, ref)
    IN  [d EXCEPT ![p].kids = SubSeq(@, 1, i - 1) \o <<new>> \o SubSeq(@, i, Len(@))])

ReplaceChild(t, p, new, old) ==
  [Detach(t, new) EXCEPT
     ![p].kids = [j \in 1..Len(@) |-> IF @[j] = old THEN new ELSE @[j]]]

AppendChild(t, p, new) == [Detach(t, new) EXCEPT ![p].kids = Append(@, new)]

\* document.createTextNode / createElement / cloneNode(false): the new node
\* is the last one of the returned document.
CreateTextNode(t, data) == Append(t, TextNode(data, FALSE))

CreateElement(t, tag) == Append(t, ElemNode(tag, <<>>))

CloneNodeShallow(t, n) == Append(t, [t[n] EXCEPT !.kids = <<>>])

\* Whether n lies in the subtree of a (a itself included).
RECURSIVE IsInclusiveDescendant(_, _, _)
IsInclusiveDescendant(t, n, a) ==
  IF n = None THEN FALSE
  ELSE IF n = a THEN TRUE
  ELSE IsInclusiveDescendant(t, ParentNode(t, n), a)

(***************************************************************************)
(* Options and presets.                                                    *)
(*                                                                         *)
(* A predicate over elements is modelled by the set of tag names on which  *)
(* it answers the non-default way: filterElements by the tags it rejects   *)
(* (returns false for), forceContext by the tags it forces (returns true   *)
(* for).                                                                   *)
(***************************************************************************)
NON_PROSE_ELEMENTS ==
  {"br", "hr", "script", "style", "img", "video", "audio", "canvas", "svg",
   "map", "object", "input", "textarea", "select", "option", "optgroup",
   "button"}

NON_CONTIGUOUS_PROSE_ELEMENTS ==
  {"address", "article", "aside", "blockquote", "dd", "div", "dl",
   "fieldset", "figcaption", "figure", "footer", "form", "h1", "h2", "h3",
   "h4", "h5", "h6", "header", "hgroup", "hr", "main", "nav", "noscript",
   "ol", "output", "p", "pre", "section", "ul",
   "br", "li", "summary", "dt", "details", "rp", "rt", "rtc",
   "script", "style", "img", "video", "audio", "canvas", "svg", "map",
   "object",
   "input", "textarea", "select", "option", "optgroup", "button",
   "table", "tbody", "thead", "th", "tr", "td", "caption", "col", "tfoot",
   "colgroup"}

NoFilter == [set |-> FALSE, reject |-> {}]

FilterRejecting(tags) == [set |-> TRUE, reject |-> tags]

NoForce == [kind |-> "unset", val |-> FALSE, tags |-> {}]

ForceBool(b) == [kind |-> "bool", val |-> b, tags |-> {}]

ForceFn(tags) == [kind |-> "fn", val |-> FALSE, tags |-> tags]

\* PRESETS.prose
PRESETS(name) ==
  [forceContext   |-> ForceFn(NON_CONTIGUOUS_PROSE_ELEMENTS),
   filterElements |-> FilterRejecting(NON_PROSE_ELEMENTS)]

\* The part of the constructor that settles the options in effect:
\* portionMode defaults to retain, and a preset is spread over the options.
EffectiveOptions(o) ==
  LET o1 == [o EXCEPT !.portionMode = IF @ = "" THEN "retain" ELSE @]
  IN  IF o1.preset # ""
      THEN [o1 EXCEPT !.forceContext   = PRESETS(o1.preset).forceContext,
                      !.filterElements = PRESETS(o1.preset).filterElements]
      ELSE o1

\* filterElements && !filterElements(el)
Avoided(o, node) ==
  o.filterElements.set /\ node.tag \in o.filterElements.reject

\* forceContext && (forceContext === true
\*                  || (typeof forceContext === 'function' && forceContext(child)))
Forced(o, node) ==
  \/ o.forceContext.kind = "bool" /\ o.forceContext.val
  \/ o.forceContext.kind = "fn" /\ node.tag \in o.forceContext.tags

(***************************************************************************)
(* The pattern engine.  A compiled pattern is a sequence of items, each a  *)
(* character with a quantifier ("1", "?", "+", "*"), optionally a capture  *)
(* group, matched greedily with backtracking.                              *)
(***************************************************************************)
Item(ch, q, cap) == [ch |-> ch, q |-> q, cap |-> cap]

MetaChars ==
  {".", "*", "+", "?", "^", "=", "!", ":", "$", "{", "}", "(", ")", "|",
   "[", "]", "/", "\\"}

\* escapeRegExp: a backslash before every metacharacter.
RECURSIVE escapeRegExp(_)
escapeRegExp(str) ==
  IF Len(str) = 0 THEN <<>>
  ELSE (IF Head(str) \in MetaChars THEN <<"\\", Head(str)>> ELSE <<Head(str)>>)
       \o escapeRegExp(Tail(str))

\* new RegExp(source): an escaped character is a literal; a character may
\* be followed by a quantifier.
RECURSIVE CompileRegExp(_)
CompileRegExp(src) ==
  IF Len(src) = 0 THEN <<>>
  ELSE LET esc  == Head(src) = "\\" /\ Len(src) >= 2
           ch   == IF esc THEN src[2] ELSE src[1]
           rest == IF esc THEN SubSeq(src, 3, Len(src)) ELSE Tail(src)
           quant == Len(rest) > 0 /\ Head(rest) \in {"+", "*", "?"}
       IN  <<Item(ch, IF quant THEN Head(rest) ELSE "1", FALSE)>>
           \o CompileRegExp(IF quant THEN Tail(rest) ELSE rest)

\* The number of consecutive characters ch of str from 0-based position pos.
RECURSIVE RunLen(_, _, _)
RunLen(str, pos, ch) ==
  IF pos < Len(str) /\ str[pos + 1] = ch THEN 1 + RunLen(str, pos + 1, ch) ELSE 0

NoMatchLens == [ok |-> FALSE, lens |-> <<>>]

\* Matches items k.. at pos; the lengths consumed by each item.
RECURSIVE MatchFrom(_, _, _, _), TryLens(_, _, _, _, _, _)
MatchFrom(items, k, str, pos) ==
  IF k > Len(items) THEN [ok |-> TRUE, lens |-> <<>>]
  ELSE LET it  == items[k]
           run == RunLen(str, pos, it.ch)
           hi  == IF it.q \in {"1", "?"} THEN Min(run, 1) ELSE run
           lo  == IF it.q \in {"1", "+"} THEN 1 ELSE 0
       IN  TryLens(items, k, str, pos, hi, lo)
TryLens(items, k, str, pos, n, lo) ==
  IF n < lo THEN NoMatchLens
  ELSE Bind(MatchFrom(items, k + 1, str, pos + n), LAMBDA r :
         IF r.ok THEN [ok |-> TRUE, lens |-> <<n>> \o r.lens]
         ELSE TryLens(items, k, str, pos, n - 1, lo))

Sum(ns) == LET RECURSIVE S(_)
               S(k) == IF k = 0 THEN 0 ELSE ns[k] + S(k - 1)
           IN  S(Len(ns))

\* The captured groups of a match: a group that did not take part in the
\* match is undefined (def = FALSE).
Captures(items, str, pos, lens) ==
  LET start(k) == pos + Sum(SubSeq(lens, 1, k - 1))
      caps == SelectSeq([k \in 1..Len(items) |-> k], LAMBDA k : items[k].cap)
  IN  [j \in 1..Len(caps) |->
         LET k == caps[j]
         IN  IF lens[k] = 0 /\ items[k].q = "?"
             THEN [def |-> FALSE, text |-> <<>>]
             ELSE [def |-> TRUE,
                   text |-> Substring(str, start(k), start(k) + lens[k])]]

\* RegExp.prototype.exec from lastIndex (String.prototype.match for a
\* pattern without the global flag is exec from 0): the leftmost match.
RECURSIVE Exec(_, _, _)
Exec(items, str, from) ==
  IF from > Len(str) THEN [found |-> FALSE, index |-> 0, len |-> 0, groups |-> <<>>]
  ELSE Bind(MatchFrom(items, 1, str, from), LAMBDA r :
         IF r.ok
         THEN [found |-> TRUE, index |-> from, len |-> Sum(r.lens),
               groups |-> Captures(items, str, from, r.lens)]
         ELSE Exec(items, str, from + 1))

(***************************************************************************)
(* Text aggregation.  An aggregation is a sequence of items, each a string *)
(* leaf (s = TRUE) or a nested aggregation (s = FALSE).                    *)
(***************************************************************************)
Leaf(str) == [s |-> TRUE, v |-> str]

Branch(agg) == [s |-> FALSE, v |-> agg]

\* The else branch with the leading string of the child shifted off but not
\* appended to the current string.
FuseInlineShiftOnly(txt, innerText) ==
  LET lead == Len(innerText) > 0 /\ innerText[1].s
      rest == IF lead THEN Tail(innerText) ELSE innerText
  IN  IF Len(rest) > 0 THEN txt \o <<Branch(rest), Leaf(<<>>)>> ELSE txt

\* The else branch for a child that is not a context of its own: its leading
\* string is appended to the current string, what remains of it is pushed.
FuseInline(txt, innerText) ==
  LET i     == Len(txt)
      lead  == Len(innerText) > 0 /\ innerText[1].s
      fused == IF lead THEN [txt EXCEPT ![i].v = @ \o innerText[1].v] ELSE txt
      rest  == IF lead THEN Tail(innerText) ELSE innerText
  IN  IF Len(rest) > 0 THEN fused \o <<Branch(rest), Leaf(<<>>)>> ELSE fused

\* A force-context child treated like any other element.
PushContextFused(txt, innerText) == FuseInline(txt, innerText)

\* txt[++i] = innerText; txt[++i] = '': the text of a child becomes a context
\* of its own.
PushContext(txt, innerText) == txt \o <<Branch(innerText), Leaf(<<>>)>>

\* getText of getAggregateText; getTextChildren is its while loop over the
\* children, txt being the array built so far (i is its last index).
RECURSIVE getText(_, _, _), getTextChildren(_, _, _, _, _)
getText(t, o, n) ==
  IF IsTextNodeType(t, n) THEN <<Leaf(t[n].data)>>
  ELSE IF ~IsElementNodeType(t, n) THEN <<>>
  ELSE IF Avoided(o, t[n]) THEN <<>>
  ELSE getTextChildren(t, o, t[n].kids, 1, <<Leaf(<<>>)>>)
getTextChildren(t, o, kids, k, txt) ==
  IF k > Len(kids) THEN txt
  ELSE
    LET child == kids[k]
        i == Len(txt)
    IN  IF IsTextNodeType(t, child)
        THEN Bind([txt EXCEPT ![i].v = @ \o t[child].data], LAMBDA txt1 :
               getTextChildren(t, o, kids, k + 1, txt1))
        ELSE
          Bind(getText(t, o, child), LAMBDA innerText :
            Bind(IF Forced(o, t[child]) THEN PushContext(txt, innerText)
                 ELSE FuseInline(txt, innerText),
                 LAMBDA txt1 : getTextChildren(t, o, kids, k + 1, txt1)))

getAggregateText(t, o, root) == getText(t, o, root)

\* The leaves of an aggregation, in order.
RECURSIVE Leaves(_)
Leaves(agg) ==
  IF Len(agg) = 0 THEN <<>>
  ELSE (IF Head(agg).s THEN <<Head(agg).v>> ELSE Leaves(Head(agg).v))
       \o Leaves(Tail(agg))

(***************************************************************************)
(* The matcher.                                                            *)
(***************************************************************************)
\* prepMatch that leaves the offsets as the pattern engine gave them, in
\* the address space of the leaf.
prepMatchLeafLocal(m, input, matchIndex, characterOffset) ==
  IF m.len = 0 THEN [threw |-> TRUE, match |-> <<>>]
  ELSE [threw |-> FALSE,
        match |-> [m0         |-> Substring(input, m.index, m.index + m.len),
                   groups     |-> m.groups,
                   startIndex |-> m.index,
                   endIndex   |-> m.index + m.len,
                   index      |-> matchIndex,
                   input      |-> input]]

\* prepMatch: a zero-length match is an error; otherwise the match with its
\* offsets in the address space of the concatenated leaves.  input is the
\* string the pattern engine was run on.
prepMatch(m, input, matchIndex, characterOffset) ==
  IF m.len = 0 THEN [threw |-> TRUE, match |-> <<>>]
  ELSE [threw |-> FALSE,
        match |-> [m0         |-> Substring(input, m.index, m.index + m.len),
                   groups     |-> m.groups,
                   startIndex |-> characterOffset + m.index,
                   endIndex   |-> characterOffset + m.index + m.len,
                   index      |-> matchIndex,
                   input      |-> input]]

\* The regex of a search that takes a string as a pattern without the
\* global flag.
SearchRegexFirstOnly(find) ==
  IF find.isStr
  THEN [items |-> CompileRegExp(escapeRegExp(find.str)), global |-> FALSE]
  ELSE [items |-> find.items, global |-> find.global]

\* The regex the search runs: a string is escaped and searched globally.
SearchRegex(find) ==
  IF find.isStr
  THEN [items |-> CompileRegExp(escapeRegExp(find.str)), global |-> TRUE]
  ELSE [items |-> find.items, global |-> find.global]

\* The loop over one leaf that numbers the matches of each leaf from 0: the
\* scan of a leaf starts at lastIndex 0, and no match is empty.
RECURSIVE ExecLoopPerLeaf(_, _, _, _)
ExecLoopPerLeaf(regex, item, lastIndex, acc) ==
  Bind(Exec(regex.items, item, lastIndex), LAMBDA m :
    IF ~m.found THEN acc
    ELSE Bind(prepMatch(m, item, IF lastIndex = 0 THEN 0 ELSE acc.matchIndex,
                        acc.offset),
              LAMBDA p :
           IF p.threw THEN [acc EXCEPT !.threw = TRUE]
           ELSE Bind([acc EXCEPT !.matches = Append(@, p.match),
                                 !.matchIndex = p.match.index + 1],
                     LAMBDA acc1 :
                       ExecLoopPerLeaf(regex, item, m.index + m.len, acc1))))

\* The while loop of regex.exec over one leaf, in global mode.
RECURSIVE ExecLoop(_, _, _, _)
ExecLoop(regex, item, lastIndex, acc) ==
  Bind(Exec(regex.items, item, lastIndex), LAMBDA m :
    IF ~m.found THEN acc
    ELSE Bind(prepMatch(m, item, acc.matchIndex, acc.offset), LAMBDA p :
           IF p.threw THEN [acc EXCEPT !.threw = TRUE]
           ELSE Bind([acc EXCEPT !.matches = Append(@, p.match),
                                 !.matchIndex = @ + 1],
                     LAMBDA acc1 : ExecLoop(regex, item, m.index + m.len, acc1))))

\* item.match(regex) for a pattern without the global flag.
MatchOnce(regex, item, acc) ==
  Bind(Exec(regex.items, item, 0), LAMBDA m :
    IF ~m.found THEN acc
    ELSE Bind(prepMatch(m, item, 0, acc.offset), LAMBDA p :
           IF p.threw THEN [acc EXCEPT !.threw = TRUE]
           ELSE [acc EXCEPT !.matches = Append(@, p.match)]))

\* matchAggregation: the items of textAgg from the k-th on.  acc carries
\* the closure's matches, matchIndex and offset, and whether prepMatch threw.
RECURSIVE matchAggregation(_, _, _, _)
matchAggregation(regex, textAgg, k, acc) ==
  IF acc.threw \/ k > Len(textAgg) THEN acc
  ELSE
    LET item == textAgg[k]
    IN  IF ~item.s
        THEN Bind(matchAggregation(regex, item.v, 1, acc), LAMBDA acc1 :
               matchAggregation(regex, textAgg, k + 1, acc1))
        ELSE
          Bind(IF regex.global THEN ExecLoop(regex, item.v, 0, acc)
               ELSE MatchOnce(regex, item.v, acc),
               LAMBDA a :
                 IF a.threw THEN a
                 ELSE Bind([a EXCEPT !.offset = @ + Len(item.v)], LAMBDA acc1 :
                        matchAggregation(regex, textAgg, k + 1, acc1)))

\* search() that stops its scan at a zero-length match and returns what it
\* found so far instead of raising.
searchStoppingQuietly(t, o, root) ==
  Bind(SearchRegex(o.find), LAMBDA regex :
    Bind(getAggregateText(t, o, root), LAMBDA textAggregation :
      [matchAggregation(regex, textAggregation, 1,
                        [matches |-> <<>>, matchIndex |-> 0, offset |-> 0,
                         threw |-> FALSE])
         EXCEPT !.threw = FALSE]))

\* search(): the matches, or threw when a match was of zero length.
search(t, o, root) ==
  Bind(SearchRegex(o.find), LAMBDA regex :
    Bind(getAggregateText(t, o, root), LAMBDA textAggregation :
      matchAggregation(regex, textAggregation, 1,
                       [matches |-> <<>>, matchIndex |-> 0, offset |-> 0,
                        threw |-> FALSE])))

(***************************************************************************)
(* The rewriter: replacement content.                                      *)
(***************************************************************************)
Digits == <<"0", "1", "2", "3", "4", "5", "6", "7", "8", "9">>

IsDigit(c) == c \in Range(Digits)

DigitValue(c) == IndexOf(Digits, c) - 1

\* +t for a string of digits.
RECURSIVE NumberOf(_)
NumberOf(ds) ==
  IF Len(ds) = 0 THEN 0
  ELSE 10 * NumberOf(SubSeq(ds, 1, Len(ds) - 1)) + DigitValue(ds[Len(ds)])

\* String(n) for a number n >= 0.
RECURSIVE StringOfNumber(_)
StringOfNumber(n) ==
  IF n < 10 THEN <<Digits[n + 1]>>
  ELSE StringOfNumber(n \div 10) \o <<Digits[(n % 10) + 1]>>

\* The number of leading digits of str.
RECURSIVE LeadingDigits(_)
LeadingDigits(str) ==
  IF Len(str) > 0 /\ IsDigit(Head(str)) THEN 1 + LeadingDigits(Tail(str)) ELSE 0

\* match[+t] without the fallback to the empty string: a group that did not
\* take part reads as the text undefined.
GroupOrUndefined(match, n) ==
  IF n = 0 THEN match.m0
  ELSE IF n <= Len(match.groups) /\ match.groups[n].def THEN match.groups[n].text
  ELSE <<"u", "n", "d", "e", "f", "i", "n", "e", "d">>

\* match[+t] || ''
GroupOrEmpty(match, n) ==
  IF n = 0 THEN match.m0
  ELSE IF n <= Len(match.groups) /\ match.groups[n].def THEN match.groups[n].text
  ELSE <<>>

\* The grave accent (U+0060) and the apostrophe (U+0027), as characters of
\* a text.
Grave == "grave"

Apostrophe == "apostrophe"

\* The replacer of the str.replace call of prepareReplacementString, for the
\* token t that follows the dollar sign: an ampersand, a grave accent, an
\* apostrophe or a run of digits.
TokenText(t, match) ==
  CASE t = <<"&">>        -> match.m0
    [] t = <<Grave>>      -> Substring(match.input, 0, match.startIndex)
    [] t = <<Apostrophe>> -> SubstringFrom(match.input, match.endIndex)
    [] OTHER              -> GroupOrEmpty(match, NumberOf(t))

\* str.replace(re, replacer), re matching a dollar sign followed by a token.
RECURSIVE Interpolate(_, _)
Interpolate(str, match) ==
  IF Len(str) = 0 THEN <<>>
  ELSE IF Head(str) = "$" /\ Len(str) >= 2 /\ IsDigit(str[2])
  THEN LET nd == LeadingDigits(Tail(str))
       IN  TokenText(SubSeq(str, 2, nd + 1), match)
           \o Interpolate(SubSeq(str, nd + 2, Len(str)), match)
  ELSE IF Head(str) = "$" /\ Len(str) >= 2 /\ str[2] \in {"&", Grave, Apostrophe}
  THEN TokenText(<<str[2]>>, match) \o Interpolate(SubSeq(str, 3, Len(str)), match)
  ELSE <<Head(str)>> \o Interpolate(Tail(str), match)

\* prepareReplacementString that, in first mode, repeats the whole text in
\* every portion.
prepareReplacementStringRepeated(o, str, portion, match) ==
  Bind(Interpolate(str, match), LAMBDA full :
    IF o.portionMode = "first" THEN full
    ELSE IF portion.isEnd THEN SubstringFrom(full, portion.indexInMatch)
    ELSE Substring(full, portion.indexInMatch,
                   portion.indexInMatch + Len(portion.text)))

\* prepareReplacementString that gives the end portion, like the others, no
\* more than its own text length.
prepareReplacementStringBounded(o, str, portion, match) ==
  IF o.portionMode = "first" /\ portion.indexInMatch > 0 THEN <<>>
  ELSE Bind(Interpolate(str, match), LAMBDA full :
         IF o.portionMode = "first" THEN full
         ELSE Substring(full, portion.indexInMatch,
                        portion.indexInMatch + Len(portion.text)))

prepareReplacementString(o, str, portion, match) ==
  IF o.portionMode = "first" /\ portion.indexInMatch > 0 THEN <<>>
  ELSE Bind(Interpolate(str, match), LAMBDA full :
         IF o.portionMode = "first" THEN full
         ELSE IF portion.isEnd THEN SubstringFrom(full, portion.indexInMatch)
         ELSE Substring(full, portion.indexInMatch,
                        portion.indexInMatch + Len(portion.text)))

\* The replace option in effect: const { replace = '$&' } = this.options
ReplaceOrDefault(o) ==
  IF o.replace.kind = "none" THEN [kind |-> "str", tpl |-> <<"$", "&">>, fn |-> ""]
  ELSE o.replace

\* A call of the caller's replace function (the functions of
\* tests/replaceDOMText.test.ts): "prefix" returns a text node holding "b"
\* and the portion's text, "elem" returns a new <u> holding the portion's
\* text, "index" returns the number portion.indexInMatch.  The result is a
\* node (isNode) or a value to be coerced to a string.
CallReplaceFn(t, fn, portion) ==
  CASE fn = "prefix" ->
         [t |-> CreateTextNode(t, <<"b">> \o portion.text), isNode |-> TRUE,
          node |-> Len(t) + 1, str |-> <<>>]
    [] fn = "elem" ->
         [t |-> AppendChild(CreateTextNode(CreateElement(t, "u"), portion.text),
                            Len(t) + 1, Len(t) + 2),
          isNode |-> TRUE, node |-> Len(t) + 1, str |-> <<>>]
    [] OTHER ->
         [t |-> t, isNode |-> FALSE, node |-> None,
          str |-> StringOfNumber(portion.indexInMatch)]

\* The wrapper of getPortionReplacementNode around textNode: a new element
\* named by wrap, or a shallow clone of the stencil node.
WrapText(t, o, textNode) ==
  Bind(IF o.wrap.kind = "tag" THEN CreateElement(t, o.wrap.tag)
       ELSE CloneNodeShallow(t, o.wrap.node),
       LAMBDA t1 :
         LET el == Len(t1)
         IN  [t |-> AppendChild(IF o.wrapClass # ""
                                THEN [t1 EXCEPT ![el].cls = o.wrapClass]
                                ELSE t1,
                                el, textNode),
              node |-> el])

\* getPortionReplacementNode.  fail says that the caller's replace function
\* throws in this call.  The result carries the document with the nodes
\* created, the replacement node, and for the record the replacement text
\* and whether a wrapper was made.
getPortionReplacementNode(t, o, portion, match, fail) ==
  IF ReplaceOrDefault(o).kind = "fn"
  THEN IF fail
       THEN [t |-> t, node |-> None, threw |-> TRUE, text |-> <<>>,
             wrapped |-> FALSE]
       ELSE Bind(CallReplaceFn(t, ReplaceOrDefault(o).fn, portion), LAMBDA r :
              IF r.isNode
              THEN [t |-> r.t, node |-> r.node, threw |-> FALSE,
                    text |-> <<>>, wrapped |-> FALSE]
              ELSE [t |-> CreateTextNode(r.t, r.str), node |-> Len(r.t) + 1,
                    threw |-> FALSE, text |-> r.str, wrapped |-> FALSE])
  ELSE
    Bind(prepareReplacementString(o, ReplaceOrDefault(o).tpl, portion, match),
         LAMBDA replacementText :
      Bind(CreateTextNode(t, replacementText), LAMBDA t1 :
        LET textNode == Len(t1)
        IN  IF o.wrap.kind = "none"
            THEN [t |-> t1, node |-> textNode, threw |-> FALSE,
                  text |-> replacementText, wrapped |-> FALSE]
            ELSE IF Len(replacementText) = 0
            THEN [t |-> CreateTextNode(t1, <<>>), node |-> Len(t1) + 1,
                  threw |-> FALSE, text |-> replacementText, wrapped |-> FALSE]
            ELSE Bind(WrapText(t1, o, textNode), LAMBDA w :
                   [t |-> w.t, node |-> w.node, threw |-> FALSE,
                    text |-> replacementText, wrapped |-> TRUE])))

\* What is recorded of one call of getPortionReplacementNode.
CallRecord(match, portion, r) ==
  [match |-> match, portion |-> portion,
   node |-> r.node, text |-> r.text, wrapped |-> r.wrapped, threw |-> r.threw]

(***************************************************************************)
(* The rewriter: tree surgery.  An inverse operation (an element of        *)
(* this.reverts) is a record of the nodes its closure captured.            *)
(***************************************************************************)
\* A leftover that is never made: the text outside the match is dropped.
LeftoverDropped(t, cond, data) == [t |-> t, node |-> None]

\* Creates a leftover text node when cond holds: the document and the node.
Leftover(t, cond, data) ==
  IF cond THEN [t |-> CreateTextNode(t, data), node |-> Len(t) + 1]
  ELSE [t |-> t, node |-> None]

\* if (new) ref.parentNode.insertBefore(new, ref)
InsertIf(t, new, ref) ==
  IF new = None THEN t ELSE InsertBefore(t, ParentNode(t, ref), new, ref)

\* A splice that puts both leftovers before the replacement node.
SpliceAroundLeftoversFirst(t, new, mid, fol, ref) ==
  Bind(InsertIf(t, new, ref), LAMBDA t1 :
    Bind(InsertIf(t1, fol, ref), LAMBDA t2 :
      Bind(InsertBefore(t2, ParentNode(t2, ref), mid, ref), LAMBDA t3 :
        RemoveChild(t3, ParentNode(t3, ref), ref))))

\* ref.parentNode.removeChild(ref), after the insertion of new (if any),
\* then mid, then fol (if any) before ref.
SpliceAround(t, new, mid, fol, ref) ==
  Bind(InsertIf(t, new, ref), LAMBDA t1 :
    Bind(InsertBefore(t1, ParentNode(t1, ref), mid, ref), LAMBDA t2 :
      Bind(InsertIf(t2, fol, ref), LAMBDA t3 :
        RemoveChild(t3, ParentNode(t3, ref), ref))))

\* What replaceMatch leaves behind.
Outcome(t, created, reverts, calls, next, threw, skipped) ==
  [t |-> t, created |-> created, reverts |-> reverts, calls |-> calls,
   next |-> next, threw |-> threw, skipped |-> skipped]

SingleRevert(pre, fol, new, node, parent) ==
  [kind |-> "single", pre |-> pre, fol |-> fol, new |-> new, node |-> node,
   parent |-> parent,
   sPre |-> None, first |-> None, sNode |-> None, sFol |-> None,
   ePre |-> None, last |-> None, eNode |-> None, eFol |-> None]

InnerRevert(new, node) ==
  [kind |-> "inner", pre |-> None, fol |-> None, new |-> new, node |-> node,
   parent |-> None,
   sPre |-> None, first |-> None, sNode |-> None, sFol |-> None,
   ePre |-> None, last |-> None, eNode |-> None, eFol |-> None]

MultiRevert(sPre, first, sNode, sFol, ePre, last, eNode, eFol) ==
  [kind |-> "multi", pre |-> None, fol |-> None, new |-> None, node |-> None,
   parent |-> None,
   sPre |-> sPre, first |-> first, sNode |-> sNode, sFol |-> sFol,
   ePre |-> ePre, last |-> last, eNode |-> eNode, eFol |-> eFol]

\* The single-node branch of replaceMatch (matchStartNode === matchEndNode):
\* the preceding leftover is inserted, then the replacement node is made and
\* inserted, then the following leftover; then the node is removed.
replaceMatchSingle(t, o, match, startPortion, endPortion, failAt) ==
  LET node   == startPortion.node
      parent == ParentNode(t, node)
  IN
  Bind(Leftover(t, startPortion.indexInNode > 0,
                Substring(t[node].data, 0, startPortion.indexInNode)), LAMBDA pre :
  Bind(IF pre.node = None THEN pre.t
       ELSE InsertBefore(pre.t, parent, pre.node, node), LAMBDA t1 :
  Bind(getPortionReplacementNode(t1, o, endPortion, match, failAt = 1), LAMBDA r :
    IF r.threw
    THEN Outcome(r.t, {}, <<>>, <<CallRecord(match, endPortion, r)>>, None,
                 TRUE, FALSE)
    ELSE
      Bind(InsertBefore(r.t, parent, r.node, node), LAMBDA t2 :
      Bind(Leftover(t2, endPortion.endIndexInNode < Len(t[node].data),
                    SubstringFrom(t[node].data, endPortion.endIndexInNode)),
           LAMBDA fol :
      Bind(IF fol.node = None THEN fol.t
           ELSE InsertBefore(fol.t, parent, fol.node, node), LAMBDA t3 :
        Outcome(RemoveChild(t3, parent, node), {r.node},
                <<SingleRevert(pre.node, fol.node, r.node, node, parent)>>,
                <<CallRecord(match, endPortion, r)>>,
                IF fol.node # None THEN fol.node ELSE r.node, FALSE, FALSE)))))))

\* A loop over the inner portions that leaves them alone.
replaceInnerNone(o, match, innerPortions, j, failAt, acc) == acc

\* The for loop of replaceMatch over the inner portions, from the j-th on;
\* acc is the Outcome so far.
RECURSIVE replaceInner(_, _, _, _, _, _)
replaceInner(o, match, innerPortions, j, failAt, acc) ==
  IF acc.threw \/ j > Len(innerPortions) THEN acc
  ELSE
    LET portion == innerPortions[j]
    IN
    Bind(getPortionReplacementNode(acc.t, o, portion, match, failAt = j + 1),
         LAMBDA r :
      IF r.threw
      THEN [acc EXCEPT !.t = r.t,
                       !.calls = Append(@, CallRecord(match, portion, r)),
                       !.threw = TRUE]
      ELSE
        Bind([acc EXCEPT
                !.t = ReplaceChild(r.t, ParentNode(r.t, portion.node), r.node,
                                   portion.node),
                !.created = @ \cup {r.node},
                !.reverts = Append(@, InnerRevert(r.node, portion.node)),
                !.calls = Append(@, CallRecord(match, portion, r))],
             LAMBDA acc1 :
               replaceInner(o, match, innerPortions, j + 1, failAt, acc1)))

\* The end of the multi-node branch of replaceMatch, from "Prepare end
\* replacement node" on.  acc is the Outcome of the start node and the inner
\* portions; sPre, first and sFol are the nodes put in place of the start
\* node; fail says that the replace function throws on the end portion.
replaceMatchEnd(o, match, startPortion, endPortion, fail, sPre, first, sFol, acc) ==
  LET matchEndNode == endPortion.node
      endData      == acc.t[matchEndNode].data
  IN
  Bind(getPortionReplacementNode(acc.t, o, endPortion, match, fail), LAMBDA r2 :
    IF r2.threw
    THEN [acc EXCEPT !.t = r2.t,
                     !.calls = Append(@, CallRecord(match, endPortion, r2)),
                     !.threw = TRUE]
    ELSE
      Bind(Leftover(r2.t, endPortion.indexInNode > 0,
                    Substring(endData, 0, endPortion.indexInNode)),
           LAMBDA ePre :
      Bind(Leftover(ePre.t, endPortion.endIndexInNode < Len(endData),
                    SubstringFrom(endData, endPortion.endIndexInNode)),
           LAMBDA eFol :
        Outcome(SpliceAround(eFol.t, ePre.node, r2.node, eFol.node, matchEndNode),
                acc.created \cup {r2.node},
                Append(acc.reverts,
                       MultiRevert(sPre, first, startPortion.node, sFol,
                                   ePre.node, r2.node, matchEndNode, eFol.node)),
                Append(acc.calls, CallRecord(match, endPortion, r2)),
                IF eFol.node # None THEN eFol.node ELSE r2.node,
                FALSE, FALSE))))

\* The multi-node branch of replaceMatch.  failAt is the number of the call
\* of the replace function that throws (0: none).
replaceMatchMulti(t, o, match, startPortion, innerPortions, endPortion, failAt) ==
  LET matchStartNode == startPortion.node
      startData      == t[matchStartNode].data
  IN
  Bind(Leftover(t, startPortion.indexInNode > 0,
                Substring(startData, 0, startPortion.indexInNode)),
       LAMBDA sPre :
  Bind(Leftover(sPre.t, startPortion.endIndexInNode < Len(startData),
                SubstringFrom(startData, startPortion.endIndexInNode)),
       LAMBDA sFol :
  Bind(getPortionReplacementNode(sFol.t, o, startPortion, match, failAt = 1),
       LAMBDA r1 :
    IF r1.threw
    THEN Outcome(r1.t, {}, <<>>, <<CallRecord(match, startPortion, r1)>>, None,
                 TRUE, FALSE)
    ELSE
      Bind(SpliceAround(r1.t, sPre.node, r1.node, sFol.node, matchStartNode),
           LAMBDA t4 :
      Bind(replaceInner(o, match, innerPortions, 1, failAt,
                        Outcome(t4, {r1.node}, <<>>,
                                <<CallRecord(match, startPortion, r1)>>, None,
                                FALSE, FALSE)),
           LAMBDA acc :
        IF acc.threw THEN acc
        ELSE replaceMatchEnd(o, match, startPortion, endPortion,
                             failAt = Len(innerPortions) + 2,
                             sPre.node, r1.node, sFol.node, acc))))))

\* replaceMatch.  Returns null (skipped) when the start or end node is not
\* an instance of Text.
replaceMatch(t, o, match, startPortion, innerPortions, endPortion, failAt) ==
  IF ~InstanceOfText(t, startPortion.node) \/ ~InstanceOfText(t, endPortion.node)
  THEN Outcome(t, {}, <<>>, <<>>, None, FALSE, TRUE)
  ELSE IF startPortion.node = endPortion.node
  THEN replaceMatchSingle(t, o, match, startPortion, endPortion, failAt)
  ELSE replaceMatchMulti(t, o, match, startPortion, innerPortions, endPortion,
                         failAt)

(***************************************************************************)
(* The reverter.                                                           *)
(***************************************************************************)
\* x?.parentNode?.removeChild(x)
RemoveIfAttached(t, x) == IF x = None THEN t ELSE Detach(t, x)

\* if (new.parentNode) new.parentNode.replaceChild(old, new)
RestoreIfAttached(t, new, old) ==
  IF ParentNode(t, new) = None THEN t
  ELSE ReplaceChild(t, ParentNode(t, new), old, new)

\* if (x?.parentNode === parent) parent.removeChild(x)
RemoveIfChildOf(t, x, parent) ==
  IF x # None /\ ParentNode(t, x) = parent THEN RemoveChild(t, parent, x) ELSE t

\* One inverse operation run on document t.
RunRevert(t, rv) ==
  CASE rv.kind = "single" ->
         Bind(RemoveIfChildOf(t, rv.pre, rv.parent), LAMBDA t1 :
           Bind(RemoveIfChildOf(t1, rv.fol, rv.parent), LAMBDA t2 :
             RestoreIfAttached(t2, rv.new, rv.node)))
    [] rv.kind = "inner" -> RestoreIfAttached(t, rv.new, rv.node)
    [] OTHER ->
         Bind(RemoveIfAttached(t, rv.sPre), LAMBDA t1 :
           Bind(RestoreIfAttached(t1, rv.first, rv.sNode), LAMBDA t2 :
             Bind(RemoveIfAttached(t2, rv.sFol), LAMBDA t3 :
               Bind(RemoveIfAttached(t3, rv.ePre), LAMBDA t4 :
                 Bind(RestoreIfAttached(t4, rv.last, rv.eNode), LAMBDA t5 :
                   RemoveIfAttached(t5, rv.eFol))))))

\* The inverse operations rvs run in the order of their creation, the last
\* i of them: what revert() would do if it walked this.reverts forwards.
RECURSIVE RunRevertsInOrder(_, _, _)
RunRevertsInOrder(t, rvs, i) ==
  IF i = 0 THEN t
  ELSE Bind(RunRevert(t, rvs[Len(rvs) - i + 1]), LAMBDA t1 :
         RunRevertsInOrder(t1, rvs, i - 1))

\* A loop that stops before the earliest inverse operation (--i for i--):
\* rvs[2..i] run from the last on, rvs[1] is left out.
RECURSIVE RunRevertsButEarliest(_, _, _)
RunRevertsButEarliest(t, rvs, i) ==
  IF i <= 1 THEN t
  ELSE Bind(RunRevert(t, rvs[i]), LAMBDA t1 : RunRevertsButEarliest(t1, rvs, i - 1))

\* for (let i = this.reverts.length; i--;) this.reverts[i](): the inverse
\* operations rvs[1..i] run from the last to the first.
RECURSIVE RunReverts(_, _, _)
RunReverts(t, rvs, i) ==
  IF i = 0 THEN t
  ELSE Bind(RunRevert(t, rvs[i]), LAMBDA t1 : RunReverts(t1, rvs, i - 1))

(***************************************************************************)
(* The portion resolver: processMatches.                                   *)
(***************************************************************************)
\* null, for a portion.
NoPortion ==
  [node |-> None, index |-> 0, text |-> <<>>, indexInMatch |-> 0,
   indexInNode |-> 0, endIndexInNode |-> 0, isEnd |-> FALSE]

\* The locals of processMatches before its loop.  mi is the position in
\* this.matches of the local match (past the end: match is undefined).
InitialLocals(root) ==
  [curNode |-> root, nodeStack |-> <<root>>, mi |-> 1, atIndex |-> 0,
   portionIndex |-> 0, consumedInMatch |-> 0, startPortion |-> NoPortion,
   endPortion |-> NoPortion, innerPortions |-> <<>>, done |-> FALSE]

\* "Pop back up until we find a sibling or run out": the loop over
\* nodeStack.  Leaves curNode as it was when the stack runs out.
RECURSIVE PopUp(_, _, _)
PopUp(t, root, l) ==
  IF Len(l.nodeStack) = 0 THEN l
  ELSE LET parent == l.nodeStack[Len(l.nodeStack)]
           popped == [l EXCEPT !.nodeStack = SubSeq(@, 1, Len(@) - 1)]
       IN  IF NextSibling(t, parent) # None
           THEN [popped EXCEPT !.curNode = NextSibling(t, parent)]
           ELSE IF parent = root
           THEN [popped EXCEPT !.curNode = None, !.done = TRUE]
           ELSE PopUp(t, root, popped)

\* The bookkeeping with a start test that also takes a text node ending where
\* the match starts.
ResolvePortionsEager(t, l, match) ==
  LET curText    == t[l.curNode].data
      textLength == Len(curText)
      isEndHere  == l.endPortion = NoPortion
                    /\ l.atIndex + textLength >= match.endIndex
      isInner    == ~isEndHere /\ l.startPortion # NoPortion
      l1 == IF isEndHere
            THEN [l EXCEPT
                    !.endPortion =
                       [node |-> l.curNode, index |-> l.portionIndex,
                        text |-> Substring(curText, match.startIndex - l.atIndex,
                                           match.endIndex - l.atIndex),
                        indexInMatch |-> l.consumedInMatch,
                        indexInNode |-> match.startIndex - l.atIndex,
                        endIndexInNode |-> match.endIndex - l.atIndex,
                        isEnd |-> TRUE],
                    !.portionIndex = @ + 1]
            ELSE IF isInner
            THEN [l EXCEPT
                    !.innerPortions =
                       Append(@, [node |-> l.curNode, index |-> l.portionIndex,
                                  text |-> curText,
                                  indexInMatch |-> l.consumedInMatch,
                                  indexInNode |-> 0,
                                  endIndexInNode |-> Len(curText),
                                  isEnd |-> FALSE]),
                    !.portionIndex = @ + 1,
                    !.consumedInMatch = @ + Len(curText)]
            ELSE l
      isStartHere == l1.startPortion = NoPortion
                     /\ l1.atIndex + textLength >= match.startIndex
      startText   == Substring(curText, match.startIndex - l1.atIndex,
                               match.endIndex - l1.atIndex)
      l2 == IF isStartHere
            THEN [l1 EXCEPT
                    !.startPortion =
                       [node |-> l1.curNode, index |-> l1.portionIndex,
                        text |-> startText,
                        indexInMatch |-> 0,
                        indexInNode |-> match.startIndex - l1.atIndex,
                        endIndexInNode |-> match.endIndex - l1.atIndex,
                        isEnd |-> FALSE],
                    !.portionIndex = @ + 1,
                    !.consumedInMatch = Len(startText)]
            ELSE l1
  IN  [l2 EXCEPT !.atIndex = @ + textLength]

\* The portion bookkeeping of one text node (the block guarded by
\* curNode.nodeType === Node.TEXT_NODE && match).
ResolvePortions(t, l, match) ==
  LET curText    == t[l.curNode].data
      textLength == Len(curText)
      isEndHere  == l.endPortion = NoPortion
                    /\ l.atIndex + textLength >= match.endIndex
      isInner    == ~isEndHere /\ l.startPortion # NoPortion
      l1 == IF isEndHere
            THEN [l EXCEPT
                    !.endPortion =
                       [node |-> l.curNode, index |-> l.portionIndex,
                        text |-> Substring(curText, match.startIndex - l.atIndex,
                                           match.endIndex - l.atIndex),
                        indexInMatch |-> l.consumedInMatch,
                        indexInNode |-> match.startIndex - l.atIndex,
                        endIndexInNode |-> match.endIndex - l.atIndex,
                        isEnd |-> TRUE],
                    !.portionIndex = @ + 1]
            ELSE IF isInner
            THEN [l EXCEPT
                    !.innerPortions =
                       Append(@, [node |-> l.curNode, index |-> l.portionIndex,
                                  text |-> curText,
                                  indexInMatch |-> l.consumedInMatch,
                                  indexInNode |-> 0,
                                  endIndexInNode |-> Len(curText),
                                  isEnd |-> FALSE]),
                    !.portionIndex = @ + 1,
                    !.consumedInMatch = @ + Len(curText)]
            ELSE l
      isStartHere == l1.startPortion = NoPortion
                     /\ l1.atIndex + textLength > match.startIndex
      startText   == Substring(curText, match.startIndex - l1.atIndex,
                               match.endIndex - l1.atIndex)
      l2 == IF isStartHere
            THEN [l1 EXCEPT
                    !.startPortion =
                       [node |-> l1.curNode, index |-> l1.portionIndex,
                        text |-> startText,
                        indexInMatch |-> 0,
                        indexInNode |-> match.startIndex - l1.atIndex,
                        endIndexInNode |-> match.endIndex - l1.atIndex,
                        isEnd |-> FALSE],
                    !.portionIndex = @ + 1,
                    !.consumedInMatch = Len(startText)]
            ELSE l1
  IN  [l2 EXCEPT !.atIndex = @ + textLength]

\* Advance that descends into every element, filtered or not.
AdvanceIntoFiltered(t, o, root, l) ==
  IF FirstChild(t, l.curNode) # None
  THEN [l EXCEPT !.nodeStack = Append(@, l.curNode),
                 !.curNode = FirstChild(t, l.curNode)]
  ELSE IF NextSibling(t, l.curNode) # None
  THEN [l EXCEPT !.curNode = NextSibling(t, l.curNode)]
  ELSE PopUp(t, root, l)

\* The step of the traversal that follows the portion bookkeeping when no
\* match is ready: descend, go to the next sibling, or pop back up.
Advance(t, o, root, l) ==
  LET doAvoidNode == IsElementNodeType(t, l.curNode) /\ Avoided(o, t[l.curNode])
  IN  IF ~doAvoidNode /\ FirstChild(t, l.curNode) # None
      THEN [l EXCEPT !.nodeStack = Append(@, l.curNode),
                     !.curNode = FirstChild(t, l.curNode)]
      ELSE IF NextSibling(t, l.curNode) # None
      THEN [l EXCEPT !.curNode = NextSibling(t, l.curNode)]
      ELSE PopUp(t, root, l)

\* A skip of a created node that counts the node's text: the cursor moves
\* on by the length of a replacement text node.
SkipCreatedCounting(t, root, l) ==
  Bind([l EXCEPT !.atIndex = @ + Len(t[l.curNode].data)], LAMBDA l1 :
    IF NextSibling(t, l1.curNode) # None
    THEN [l1 EXCEPT !.curNode = NextSibling(t, l1.curNode)]
    ELSE PopUp(t, root, l1))

\* A skip of a created node that does not move on: the loop stays at the
\* node.
SkipCreatedStay(t, root, l) == l

\* "Skip any nodes we have created during replacement".
SkipCreated(t, root, l) ==
  IF NextSibling(t, l.curNode) # None
  THEN [l EXCEPT !.curNode = NextSibling(t, l.curNode)]
  ELSE PopUp(t, root, l)

\* AfterReplace without "atIndex = match.endIndex": the aggregated index
\* stays at the end of the text node the match ended in.
AfterReplaceKeepIndex(l, matches, next) ==
  [l EXCEPT !.startPortion = NoPortion, !.endPortion = NoPortion,
            !.innerPortions = <<>>,
            !.mi = @ + 1,
            !.portionIndex = 0, !.consumedInMatch = 0,
            !.curNode = next,
            !.done = (l.mi + 1 > Len(matches)) \/ l.done]

\* The locals after a match when portionIndex is not reset: the portions of
\* the next match are numbered on from those of this one.
AfterReplaceKeepPortionIndex(l, matches, next) ==
  [l EXCEPT !.startPortion = NoPortion, !.endPortion = NoPortion,
            !.innerPortions = <<>>,
            !.atIndex = matches[l.mi].endIndex,
            !.mi = @ + 1,
            !.consumedInMatch = 0,
            !.curNode = next,
            !.done = (l.mi + 1 > Len(matches)) \/ l.done]

\* The locals after a match when consumedInMatch is not reset: the offsets
\* in the next match start from the length consumed in this one.
AfterReplaceKeepConsumed(l, matches, next) ==
  [l EXCEPT !.startPortion = NoPortion, !.endPortion = NoPortion,
            !.innerPortions = <<>>,
            !.atIndex = matches[l.mi].endIndex,
            !.mi = @ + 1,
            !.portionIndex = 0,
            !.curNode = next,
            !.done = (l.mi + 1 > Len(matches)) \/ l.done]

\* AfterReplace without "if (!match) done = true": the loop goes on after
\* the last match.
AfterReplaceNeverDone(l, matches, next) ==
  [l EXCEPT !.startPortion = NoPortion, !.endPortion = NoPortion,
            !.innerPortions = <<>>,
            !.atIndex = matches[l.mi].endIndex,
            !.mi = @ + 1,
            !.portionIndex = 0, !.consumedInMatch = 0,
            !.curNode = next]

\* The locals after a match was handed to replaceMatch, which returned next.
AfterReplace(l, matches, next) ==
  [l EXCEPT !.startPortion = NoPortion, !.endPortion = NoPortion,
            !.innerPortions = <<>>,
            !.atIndex = matches[l.mi].endIndex,
            !.mi = @ + 1,
            !.portionIndex = 0, !.consumedInMatch = 0,
            !.curNode = next,
            !.done = (l.mi + 1 > Len(matches)) \/ l.done]

\* One iteration of the while loop of processMatches.  The result is the
\* locals at the end of the iteration (l) and, when replaceMatch was called
\* (hit), the locals at that call (at) and its Outcome (out).
Iteration(t, o, root, matches, created, l, failAt) ==
  IF l.curNode \in created
  THEN [l |-> SkipCreated(t, root, l), hit |-> FALSE, at |-> l,
        out |-> Outcome(t, {}, <<>>, <<>>, None, FALSE, FALSE)]
  ELSE
    Bind(IF IsTextNodeType(t, l.curNode) /\ l.mi <= Len(matches)
         THEN ResolvePortions(t, l, matches[l.mi])
         ELSE l,
         LAMBDA l1 :
      IF l1.startPortion # NoPortion /\ l1.endPortion # NoPortion
         /\ l.mi <= Len(matches)
      THEN Bind(replaceMatch(t, o, matches[l.mi], l1.startPortion,
                             l1.innerPortions, l1.endPortion, failAt),
                LAMBDA out :
             [l |-> IF out.threw THEN l1 ELSE AfterReplace(l1, matches, out.next),
              hit |-> TRUE, at |-> l1, out |-> out])
      ELSE [l |-> Advance(t, o, root, l1), hit |-> FALSE, at |-> l1,
            out |-> Outcome(t, {}, <<>>, <<>>, None, FALSE, FALSE)])

(***************************************************************************)
(* The documents and options explored.                                     *)
(***************************************************************************)
\* Descriptions of nodes: a text node, a text node that is not an instance
\* of Text, an element with its children.
T(str) == [k |-> "t", tag |-> "", d |-> str, f |-> FALSE, c |-> <<>>]

F(str) == [k |-> "t", tag |-> "", d |-> str, f |-> TRUE, c |-> <<>>]

E(tag, children) == [k |-> "e", tag |-> tag, d |-> <<>>, f |-> FALSE, c |-> children]

\* The nodes described by s, numbered from id on in document order.
RECURSIVE BuildNode(_, _), BuildChildren(_, _)
BuildNode(s, id) ==
  IF s.k = "t" THEN [t |-> <<TextNode(s.d, s.f)>>, next |-> id + 1]
  ELSE Bind(BuildChildren(s.c, id + 1), LAMBDA r :
         [t |-> <<ElemNode(s.tag, r.ids)>> \o r.t, next |-> r.next])
BuildChildren(ss, id) ==
  IF Len(ss) = 0 THEN [t |-> <<>>, ids |-> <<>>, next |-> id]
  ELSE Bind(BuildNode(Head(ss), id), LAMBDA a :
         Bind(BuildChildren(Tail(ss), a.next), LAMBDA b :
           [t |-> a.t \o b.t, ids |-> <<id>> \o b.ids, next |-> b.next]))

\* The node find() is called on.
Root == 2

\* A document: a <body> (node 1) holding the root <div> (node 2) with the
\* given children and, after the root, a text node; and, last, a detached
\* <z> element that serves as the stencil of the wrap option.
Document(segs) ==
  Bind(BuildChildren(segs, Root + 1), LAMBDA r :
    <<ElemNode("body", <<Root, r.next>>), ElemNode("div", r.ids)>>
    \o r.t
    \o <<TextNode(<<"a", "b">>, FALSE), ElemNode("z", <<>>)>>)

Stencil(doc) == Len(doc)

\* The children a root is given.
Segments ==
  { T(<<"a">>), T(<<"b">>), T(<<"b", "a", "b", "a">>),
    F(<<"a", "b">>),
    E("em", <<T(<<>>), T(<<"b">>)>>),
    E("p", <<T(<<"a">>), T(<<"b">>)>>),
    E("em", <<T(<<"a">>), E("script", <<T(<<"a">>)>>), T(<<"b">>)>>),
    E("em", <<T(<<"a">>), E("p", <<T(<<"b">>)>>), T(<<"a">>)>>) }

RECURSIVE SeqsUpTo(_, _)
SeqsUpTo(S, n) ==
  IF n = 0 THEN {<<>>}
  ELSE Bind(SeqsUpTo(S, n - 1), LAMBDA shorter :
         shorter \cup {Append(q, x) : q \in shorter, x \in S})

Documents == {Document(segs) : segs \in SeqsUpTo(Segments, MaxSegs)}

\* Patterns.
Regex(items, global) ==
  [isStr |-> FALSE, str |-> <<>>, items |-> items, global |-> global]

StringFind(str) == [isStr |-> TRUE, str |-> str, items |-> <<>>, global |-> TRUE]

ReAB == <<Item("a", "1", FALSE), Item("b", "1", FALSE)>>

ReAPlus == <<Item("a", "+", FALSE)>>

ReAStar == <<Item("a", "*", FALSE)>>

\* /(a)(b)?/: the second group takes part in a match only before a b.
ReAOptB == <<Item("a", "1", TRUE), Item("b", "?", TRUE)>>

NoReplace == [kind |-> "none", tpl |-> <<>>, fn |-> ""]

Template(tpl) == [kind |-> "str", tpl |-> tpl, fn |-> ""]

ReplaceFn(fn) == [kind |-> "fn", tpl |-> <<>>, fn |-> fn]

NoWrap == [kind |-> "none", tag |-> "", node |-> None]

WrapTag(tag) == [kind |-> "tag", tag |-> tag, node |-> None]

WrapNode(n) == [kind |-> "node", tag |-> "", node |-> n]

Options(find, replace, wrap, wrapClass, portionMode, filterElements, forceContext, preset) ==
  [find |-> find, replace |-> replace, wrap |-> wrap, wrapClass |-> wrapClass,
   portionMode |-> portionMode, filterElements |-> filterElements,
   forceContext |-> forceContext, preset |-> preset]

\* The templates '$2$1' and '$0c$&'.
SwapTemplate == <<"$", "2", "$", "1">>

WholeTemplate == <<"$", "0", "c", "$", "&">>

\* The options explored for a document.
OptionSets(doc) ==
  LET plain == {Options(f, NoReplace, w, "", "", NoFilter, NoForce, "") :
                  f \in {Regex(ReAB, TRUE), Regex(ReAB, FALSE),
                         Regex(ReAPlus, TRUE), StringFind(<<"a", "b">>)},
                  w \in {NoWrap, WrapTag("x")}}
      text  == {Options(Regex(ReAPlus, TRUE), Template(<<"c">>), w.wrap, w.cls, m,
                        NoFilter, NoForce, "") :
                  w \in {[wrap |-> NoWrap, cls |-> ""],
                         [wrap |-> WrapNode(Stencil(doc)), cls |-> "k"]},
                  m \in {"retain", "first"}}
      fns   == {Options(Regex(ReAPlus, TRUE), ReplaceFn(fn), NoWrap, "", "",
                        NoFilter, NoForce, "") : fn \in {"prefix", "elem", "index"}}
               \cup {Options(Regex(ReAB, TRUE), ReplaceFn("elem"), NoWrap, "", "",
                             NoFilter, NoForce, "")}
               \cup {Options(Regex(ReAPlus, TRUE), ReplaceFn("index"), WrapTag("x"),
                             "k", "", NoFilter, NoForce, "")}
      ctx   == {Options(f, NoReplace, WrapTag("x"), "", "", c.fl, c.fc, "") :
                  f \in {Regex(ReAB, FALSE), Regex(ReAPlus, TRUE)},
                  c \in {[fl |-> NoFilter, fc |-> ForceBool(TRUE)],
                         [fl |-> NoFilter, fc |-> ForceFn({"p"})],
                         [fl |-> FilterRejecting({"script"}), fc |-> NoForce],
                         [fl |-> FilterRejecting({"script"}), fc |-> ForceFn({"p"})]}}
      pre   == {Options(Regex(ReAB, TRUE), NoReplace, WrapTag("x"), "", "",
                        c.fl, c.fc, "prose") :
                  c \in {[fl |-> NoFilter, fc |-> NoForce],
                         [fl |-> NoFilter, fc |-> ForceBool(FALSE)],
                         [fl |-> FilterRejecting({}), fc |-> NoForce]}}
      sides == {Options(Regex(ReAB, TRUE), Template(tpl), NoWrap, "", "",
                        NoFilter, fc, "") :
                  tpl \in {<<"$", Grave>>, <<"$", Apostrophe>>},
                  fc \in {NoForce, ForceFn({"p"})}}
      zero  == {Options(Regex(ReAStar, g), NoReplace, WrapTag("x"), "", "",
                        NoFilter, NoForce, "") : g \in BOOLEAN}
      whole == {Options(Regex(ReAPlus, TRUE), NoReplace, WrapTag("x"), "", "first",
                        NoFilter, NoForce, "")}
      lit   == {Options(StringFind(<<"a", "+">>), NoReplace, WrapTag("x"), "", "",
                        NoFilter, NoForce, "")}
      groups == {Options(Regex(ReAOptB, TRUE), Template(tpl), NoWrap, "", "",
                         NoFilter, NoForce, "") :
                   tpl \in {SwapTemplate, WholeTemplate}}
  IN  plain \cup text \cup fns \cup ctx \cup pre \cup sides \cup zero \cup whole
      \cup groups \cup lit

(***************************************************************************)
(* The state.                                                              *)
(***************************************************************************)
VARIABLES
  tree,          \* the document: node id -> node
  options,       \* the options find() is called with
  opts,          \* this.options
  pc,            \* "ready", "processing", "returned" or "threw"
  matches,       \* this.matches
  pm,            \* the locals of processMatches
  createdNodes,  \* this.createdNodes
  reverts,       \* this.reverts
  nreverts,      \* the number of revert() calls made
  tree0,         \* the document when find() was called
  calls,         \* every call of getPortionReplacementNode so far
  handed,        \* every call of replaceMatch so far
  h2             \* the Finder of a second find() on the same root

\* No second find() was called yet.
NoFinder == [state |-> "none", reverts |-> <<>>, ran |-> <<>>, last |-> FALSE]

vars ==
  <<tree, options, opts, pc, matches, pm, createdNodes, reverts, nreverts,
    tree0, calls, handed, h2>>

Init ==
  \E doc \in Documents :
    \E o \in OptionSets(doc) :
      /\ tree = doc
      /\ options = o
      /\ opts = o
      /\ pc = "ready"
      /\ matches = <<>>
      /\ pm = InitialLocals(Root)
      /\ createdNodes = {}
      /\ reverts = <<>>
      /\ nreverts = 0
      /\ tree0 = doc
      /\ calls = <<>>
      /\ handed = <<>>
      /\ h2 = NoFinder

\* The constructor up to the call of processMatches.
Find ==
  /\ pc = "ready"
  /\ \E r \in {search(tree, EffectiveOptions(options), Root)} :
         /\ opts' = EffectiveOptions(options)
         /\ matches' = IF r.threw THEN <<>> ELSE r.matches
         /\ pc' = IF r.threw THEN "threw"
                  ELSE IF Len(r.matches) > 0 THEN "processing" ELSE "returned"
  /\ UNCHANGED <<h2, tree, options, pm, createdNodes, reverts, nreverts, tree0,
                 calls, handed>>

Looping == pc = "processing" /\ pm.curNode # None /\ ~pm.done

\* What replaceMatch was handed: the match (its position in this.matches),
\* its portions and the document at the call; and how the call ended.
HandedRecord(l, out, t) ==
  [match |-> l.mi, startPortion |-> l.startPortion,
   innerPortions |-> l.innerPortions, endPortion |-> l.endPortion,
   before |-> t, skipped |-> out.skipped, threw |-> out.threw]

\* An iteration of the loop that resolves no match: it only moves the cursor.
Walk ==
  /\ Looping
  /\ \E it \in {Iteration(tree, opts, Root, matches, createdNodes, pm, 0)} :
         /\ ~it.hit
         /\ pm' = it.l
  /\ UNCHANGED <<h2, tree, options, opts, pc, matches, createdNodes, reverts,
                 nreverts, tree0, calls, handed>>

\* An iteration that resolves a match and replaces it.
Replace ==
  /\ Looping
  /\ \E it \in {Iteration(tree, opts, Root, matches, createdNodes, pm, 0)} :
         /\ it.hit /\ ~it.out.skipped /\ ~it.out.threw
         /\ pm' = it.l
         /\ tree' = it.out.t
         /\ createdNodes' = createdNodes \cup it.out.created
         /\ reverts' = reverts \o it.out.reverts
         /\ calls' = calls \o it.out.calls
         /\ handed' = Append(handed, HandedRecord(it.at, it.out, tree))
  /\ UNCHANGED <<h2, options, opts, pc, matches, nreverts, tree0>>

\* An iteration that resolves a match whose start or end node is not a Text:
\* replaceMatch returns null without touching the document.
Skip ==
  /\ Looping
  /\ \E it \in {Iteration(tree, opts, Root, matches, createdNodes, pm, 0)} :
         /\ it.hit /\ it.out.skipped
         /\ pm' = it.l
         /\ handed' = Append(handed, HandedRecord(it.at, it.out, tree))
  /\ UNCHANGED <<h2, tree, options, opts, pc, matches, createdNodes, reverts,
                 nreverts, tree0, calls>>

\* The number of calls of getPortionReplacementNode replaceMatch makes for
\* the match resolved in the locals l.
PortionCount(l) ==
  IF l.startPortion.node = l.endPortion.node THEN 1
  ELSE Len(l.innerPortions) + 2

\* An iteration in which the caller's replace function throws, in its
\* failAt-th call for the match: the exception leaves the constructor.
ReplaceThrows ==
  /\ Looping
  /\ opts.replace.kind = "fn"
  /\ \E it0 \in {Iteration(tree, opts, Root, matches, createdNodes, pm, 0)} :
         /\ it0.hit /\ ~it0.out.skipped
         /\ \E failAt \in 1..PortionCount(it0.at) :
              \E it \in {Iteration(tree, opts, Root, matches, createdNodes, pm,
                                   failAt)} :
                  /\ it.out.threw
                  /\ pm' = it.l
                  /\ tree' = it.out.t
                  /\ createdNodes' = createdNodes \cup it.out.created
                  /\ reverts' = reverts \o it.out.reverts
                  /\ calls' = calls \o it.out.calls
                  /\ handed' = Append(handed, HandedRecord(it.at, it.out, tree))
                  /\ pc' = "threw"
  /\ UNCHANGED <<h2, options, opts, matches, nreverts, tree0>>

\* The loop of processMatches ends and the constructor returns the handle.
Return ==
  /\ pc = "processing"
  /\ ~Looping
  /\ pc' = "returned"
  /\ UNCHANGED <<h2, tree, options, opts, matches, pm, createdNodes, reverts,
                 nreverts, tree0, calls, handed>>

\* revert() that runs the inverse operations and keeps the list.
RevertKeepingList ==
  /\ pc = "returned"
  /\ nreverts < MaxReverts
  /\ tree' = RunReverts(tree, reverts, Len(reverts))
  /\ nreverts' = nreverts + 1
  /\ UNCHANGED <<h2, options, opts, pc, matches, pm, createdNodes, reverts, tree0,
                 calls, handed>>

\* revert() on the handle.
Revert ==
  /\ pc = "returned"
  /\ nreverts < MaxReverts
  /\ tree' = RunReverts(tree, reverts, Len(reverts))
  /\ reverts' = <<>>
  /\ nreverts' = nreverts + 1
  /\ UNCHANGED <<h2, options, opts, pc, matches, pm, createdNodes, tree0, calls,
                 handed>>

Next ==
  \/ Find
  \/ Walk
  \/ Replace
  \/ Skip
  \/ ReplaceThrows
  \/ Return
  \/ Revert

Spec == Init /\ [][Next]_vars

(***************************************************************************)
(* Properties.                                                             *)
(***************************************************************************)
\* The portions of a handed match for which replaceMatch produces content:
\* the end portion alone when the match lies in one node, otherwise the
\* start portion, the inner portions and the end portion.
PortionsOf(h) ==
  IF h.startPortion.node = h.endPortion.node THEN <<h.endPortion>>
  ELSE <<h.startPortion>> \o h.innerPortions \o <<h.endPortion>>

PortionText(h) ==
  Concat([k \in 1..Len(PortionsOf(h)) |-> PortionsOf(h)[k].text])

PortionNodes(h) == {PortionsOf(h)[k].node : k \in 1..Len(PortionsOf(h))}

\* The nodes of document t in the subtree of n (n included).
RECURSIVE Below(_, _)
Below(t, n) ==
  {n} \cup UNION {Below(t, t[n].kids[i]) : i \in 1..Len(t[n].kids)}

\* The elements of document t below the root.
ElementsBelowRoot(t) ==
  {e \in 1..Len(t) : e # Root /\ IsElementNodeType(t, e)
                     /\ IsInclusiveDescendant(t, e, Root)}

\* C1: after find and then revert, with nothing in between, every node of
\* the original document is as it was before find: each parent has the same
\* children, the same node identities in the same order, and each text node
\* has the same text.
RevertRestoresTree ==
  (pc = "returned" /\ nreverts >= 1) =>
     \A n \in 1..Len(tree0) : tree[n] = tree0[n]

\* A revert has undone at least two replacements, one of them of a match
\* that spans several text nodes, and the document is the original again.
RevertedSeveralMatches ==
  /\ pc = "returned"
  /\ nreverts >= 1
  /\ Len(handed) >= 2
  /\ \E i \in 1..Len(handed) :
       ~handed[i].skipped /\ handed[i].startPortion.node # handed[i].endPortion.node
  /\ Len(tree) > Len(tree0)
  /\ \A n \in 1..Len(tree0) : tree[n] = tree0[n]

\* C2: for every match handed to replaceMatch, the texts of its portions,
\* concatenated in portion order, are the matched substring.
PortionsConcatToMatch ==
  \A i \in 1..Len(handed) : PortionText(handed[i]) = matches[handed[i].match].m0

\* A replaced match whose portions include an inner portion that is an empty
\* text node.
MatchOverEmptyTextNode ==
  \E i \in 1..Len(handed) :
    /\ ~handed[i].skipped
    /\ \E k \in 1..Len(handed[i].innerPortions) :
         handed[i].innerPortions[k].text = <<>>
    /\ PortionText(handed[i]) = matches[handed[i].match].m0

\* C3: no match handed to replaceMatch spans the boundary of a force-context
\* element: the text nodes of its portions are all inside the element or
\* all outside it.
NoMatchAcrossForcedContext ==
  opts.forceContext.kind # "unset" =>
    \A i \in 1..Len(handed) :
      \A e \in 1..Len(handed[i].before) :
        (/\ e # Root
         /\ IsElementNodeType(handed[i].before, e)
         /\ Forced(opts, handed[i].before[e])
         /\ IsInclusiveDescendant(handed[i].before, e, Root)) =>
          \/ \A n \in PortionNodes(handed[i]) :
               IsInclusiveDescendant(handed[i].before, n, e)
          \/ \A n \in PortionNodes(handed[i]) :
               ~IsInclusiveDescendant(handed[i].before, n, e)

\* Two matches that touch (one ends where the next starts), the second
\* inside a force-context element and the first outside it: the boundary of
\* the element kept them apart.
MatchStopsAtForcedContext ==
  \E i \in 1..(Len(handed) - 1) :
    /\ matches[handed[i].match].endIndex = matches[handed[i + 1].match].startIndex
    /\ \E e \in ElementsBelowRoot(tree0) :
         /\ Forced(opts, tree0[e])
         /\ \A n \in PortionNodes(handed[i + 1]) :
              IsInclusiveDescendant(handed[i + 1].before, n, e)
         /\ \A n \in PortionNodes(handed[i]) :
              ~IsInclusiveDescendant(handed[i].before, n, e)

\* C4: with a pattern that has no global flag, at most one match is produced
\* and handed to replaceMatch for the whole document.
SingleShotAtMostOneMatch ==
  (pc # "ready" /\ ~SearchRegex(opts.find).global) =>
     Len(matches) <= 1 /\ Len(handed) <= 1

\* The strings the pattern is run on.
ScannedLeaves == Leaves(getAggregateText(tree0, opts, Root))

\* Whether the scan of one leaf from lastIndex meets a zero-length match:
\* the first match in single-shot mode, any of the successive matches in
\* global mode.
RECURSIVE ScanMeetsEmpty(_, _, _)
ScanMeetsEmpty(regex, leaf, lastIndex) ==
  \E m \in {Exec(regex.items, leaf, lastIndex)} :
    /\ m.found
    /\ \/ m.len = 0
       \/ regex.global /\ ScanMeetsEmpty(regex, leaf, m.index + m.len)

ZeroLengthInScan ==
  \E leaves \in {ScannedLeaves} :
    \E k \in 1..Len(leaves) :
      ScanMeetsEmpty(SearchRegex(opts.find), leaves[k], 0)

\* C5: when the scan meets a zero-length match, find raises and the document
\* is untouched: nothing was handed to replaceMatch, no node was created,
\* inserted, removed or replaced; a search that returned, and so a run that
\* goes on to process matches, met no zero-length match.
ZeroLengthRaisesBeforeEdits ==
  /\ (pc = "threw" /\ ZeroLengthInScan) =>
       /\ tree = tree0
       /\ handed = <<>>
       /\ createdNodes = {}
       /\ reverts = <<>>
  /\ (pc = "processing" /\ pm = InitialLocals(Root)) => ~ZeroLengthInScan

\* find raised on a zero-length match that the scan met after a non-empty
\* match in the same leaf.
RaisedAfterNonEmptyMatch ==
  /\ pc = "threw"
  /\ tree = tree0
  /\ \E k \in 1..Len(ScannedLeaves) :
       \E m \in {Exec(SearchRegex(opts.find).items, ScannedLeaves[k], 0)} :
         /\ m.found /\ m.len > 0
         /\ ScanMeetsEmpty(SearchRegex(opts.find), ScannedLeaves[k], 0)

\* The text the pattern is matched against: the leaves one after another.
MatchedStream == Concat(ScannedLeaves)

\* The offsets of the matched stream at which a leaf ends.
LeafEnds ==
  {Len(Concat(SubSeq(ScannedLeaves, 1, j))) : j \in 0..Len(ScannedLeaves)}

\* The text before offset i, and the text from offset i on, in the whole
\* stream and in the leaf that holds the characters next to offset i.
StreamBefore(i) == Substring(MatchedStream, 0, i)

StreamAfter(i) == SubstringFrom(MatchedStream, i)

LeafBefore(i) ==
  Substring(MatchedStream, CHOOSE e \in LeafEnds :
                             e <= i /\ \A f \in LeafEnds : f <= i => f <= e, i)

LeafAfter(i) ==
  Substring(MatchedStream, i, CHOOSE e \in LeafEnds :
                                e >= i /\ \A f \in LeafEnds : f >= i => e <= f)

\* C6: in a replacement template the left-context token stands for all text
\* of the matched stream before the match's start offset and the
\* right-context token for all text after its end offset.  Stated of the
\* matches that lie in one text node, whose one portion receives the whole
\* replacement text, and with either reading of "the matched stream": the
\* whole concatenated text, or the leaf the match was found in.
ContextTokensInsertStreamText ==
  \A i \in 1..Len(calls) :
    (/\ opts.replace.kind = "str"
     /\ opts.portionMode = "retain"
     /\ calls[i].portion.isEnd
     /\ calls[i].portion.indexInMatch = 0) =>
       /\ opts.replace.tpl = <<"$", Grave>> =>
            calls[i].text \in {StreamBefore(calls[i].match.startIndex),
                               LeafBefore(calls[i].match.startIndex)}
       /\ opts.replace.tpl = <<"$", Apostrophe>> =>
            calls[i].text \in {StreamAfter(calls[i].match.endIndex),
                               LeafAfter(calls[i].match.endIndex)}

\* C7: an explicit filterElements or forceContext given together with a
\* preset is the one in effect.
ExplicitOptionsInEffect ==
  (pc # "ready" /\ options.preset # "") =>
     /\ options.forceContext.kind # "unset" =>
          opts.forceContext = options.forceContext
     /\ options.filterElements.set =>
          opts.filterElements = options.filterElements

\* C8: when the replace function fails on a portion of a match, the document
\* is as it was when replaceMatch was called for that match: every node has
\* the children and the text it had.
FailureLeavesNoEdit ==
  (pc = "threw" /\ handed # <<>>) =>
     (handed[Len(handed)].threw =>
        \A n \in 1..Len(handed[Len(handed)].before) :
          tree[n] = handed[Len(handed)].before[n])

\* C9: after a match was skipped because its start or end node is not a
\* Text, the traversal goes on: when find returns, every match has been
\* handed to replaceMatch, and those after the skipped one were replaced.
SkipContinuesTraversal ==
  (pc = "returned" /\ \E i \in 1..Len(handed) : handed[i].skipped) =>
     Len(handed) = Len(matches)

\* The text nodes the aggregation reads below n, in document order: those
\* that are not inside a filtered element.
RECURSIVE ReadTexts(_, _, _)
ReadTexts(t, o, n) ==
  IF IsTextNodeType(t, n) THEN <<n>>
  ELSE IF Avoided(o, t[n]) THEN <<>>
  ELSE Concat([i \in 1..Len(t[n].kids) |-> ReadTexts(t, o, t[n].kids[i])])

\* For each character of the matched stream, the text node it comes from.
StreamOwners ==
  Concat([k \in 1..Len(ReadTexts(tree0, opts, Root)) |->
            [c \in 1..Len(tree0[ReadTexts(tree0, opts, Root)[k]].data) |->
               ReadTexts(tree0, opts, Root)[k]]])

\* Whether a force-context or filtered element separates the text nodes a
\* and b (a before b): it holds one of them and not the other, or lies
\* between them.  The nodes of the original document are numbered in
\* document order.
BoundaryBetween(a, b) ==
  \E e \in ElementsBelowRoot(tree0) :
    /\ Forced(opts, tree0[e]) \/ Avoided(opts, tree0[e])
    /\ \/ IsInclusiveDescendant(tree0, a, e) # IsInclusiveDescendant(tree0, b, e)
       \/ a < e /\ e < b

\* C10: an element that is neither force-context nor filtered never breaks a
\* match: where two text nodes follow each other in the stream with no
\* force-context or filtered element separating them, no leaf ends.
InlineElementNeverBreaks ==
  pc # "ready" =>
    \A p \in 1..(Len(StreamOwners) - 1) :
      (StreamOwners[p] # StreamOwners[p + 1]
       /\ ~BoundaryBetween(StreamOwners[p], StreamOwners[p + 1]))
        => p \notin LeafEnds

\* The elements below the root on which filterElements returns false.
FilteredElements ==
  IF opts.filterElements.set
  THEN {e \in ElementsBelowRoot(tree0) : tree0[e].tag \in opts.filterElements.reject}
  ELSE {}

\* The nodes of the original document in the subtree of e (e included).
SubtreeOf(e) == Below(tree0, e)

\* C11: the subtree of an element that filterElements rejects is left out:
\* its text is not part of the matched stream, none of its text nodes holds
\* a portion of a match, and each of its nodes keeps its children and text.
FilteredSubtreeUntouched ==
  (pc # "ready" /\ FilteredElements # {}) =>
    /\ (handed = <<>> /\ nreverts = 0) =>
         \E read \in {ReadTexts(tree0, opts, Root)} :
           MatchedStream = Concat([k \in 1..Len(read) |-> tree0[read[k]].data])
    /\ \A e \in FilteredElements :
         /\ \A n \in SubtreeOf(e) : n <= Len(tree) /\ tree[n] = tree0[n]
         /\ \A i \in 1..Len(handed) :
              PortionNodes(handed[i]) \cap SubtreeOf(e) = {}

\* A match was replaced whose portions stand on both sides of a filtered
\* element that holds text: the text around the element stayed matchable.
MatchAroundFilteredElement ==
  \E e \in FilteredElements :
    /\ \E n \in SubtreeOf(e) : IsTextNodeType(tree0, n) /\ Len(tree0[n].data) > 0
    /\ \E i \in 1..Len(handed) :
         /\ ~handed[i].skipped /\ ~handed[i].threw
         /\ handed[i].startPortion.node < e
         /\ handed[i].endPortion.node > e
         /\ handed[i].endPortion.node \notin SubtreeOf(e)
         /\ handed[i].endPortion.node <= Len(tree0)

\* The calls of getPortionReplacementNode made for the mi-th match, in order.
CallsOf(mi) == SelectSeq(calls, LAMBDA c : c.match = matches[mi])

\* The fully interpolated replacement text of the mi-th match under a string
\* template (the default template included).
FullReplacementText(mi) == Interpolate(ReplaceOrDefault(opts).tpl, matches[mi])

\* The handed matches that replaceMatch has replaced.
ReplacedMatches ==
  {i \in 1..Len(handed) : ~handed[i].skipped /\ ~handed[i].threw}

\* C12: in retain mode with a string template every portion but the end
\* portion receives the slice of the interpolated text from its indexInMatch
\* over its own text length, the end portion receives the remainder, and
\* the texts of a match's portions concatenate to the interpolated text.
RetainSlicesTileReplacement ==
  (ReplaceOrDefault(opts).kind = "str" /\ opts.portionMode = "retain") =>
    \A i \in ReplacedMatches :
      /\ Len(CallsOf(handed[i].match)) = Len(PortionsOf(handed[i]))
      /\ \A k \in 1..Len(CallsOf(handed[i].match)) :
           /\ CallsOf(handed[i].match)[k].portion = PortionsOf(handed[i])[k]
           /\ CallsOf(handed[i].match)[k].text =
                IF PortionsOf(handed[i])[k].isEnd
                THEN SubstringFrom(FullReplacementText(handed[i].match),
                                   PortionsOf(handed[i])[k].indexInMatch)
                ELSE Substring(FullReplacementText(handed[i].match),
                               PortionsOf(handed[i])[k].indexInMatch,
                               PortionsOf(handed[i])[k].indexInMatch
                                 + Len(PortionsOf(handed[i])[k].text))
      /\ Concat([k \in 1..Len(CallsOf(handed[i].match)) |->
                   CallsOf(handed[i].match)[k].text])
           = FullReplacementText(handed[i].match)

\* A match of several portions was replaced in retain mode by a text longer
\* than the match, and the end portion took more than its own length.
RetainLongerReplacement ==
  /\ opts.replace.kind = "str" /\ opts.portionMode = "retain"
  /\ \E i \in ReplacedMatches :
       /\ Len(PortionsOf(handed[i])) >= 2
       /\ Len(FullReplacementText(handed[i].match))
            > Len(matches[handed[i].match].m0)
       /\ Len(CallsOf(handed[i].match)[Len(CallsOf(handed[i].match))].text)
            > Len(handed[i].endPortion.text)

\* C13: in first mode with a string template the first portion of every
\* match receives the whole interpolated text and every later portion
\* receives empty text; a later portion yields an empty text node and
\* never a wrapper element, also when wrap is configured.
FirstModeFillsFirstPortionOnly ==
  (ReplaceOrDefault(opts).kind = "str" /\ opts.portionMode = "first") =>
    \A i \in ReplacedMatches :
      /\ Len(CallsOf(handed[i].match)) = Len(PortionsOf(handed[i]))
      /\ CallsOf(handed[i].match)[1].text
           = FullReplacementText(handed[i].match)
      /\ \A k \in 2..Len(CallsOf(handed[i].match)) :
           /\ CallsOf(handed[i].match)[k].text = <<>>
           /\ ~CallsOf(handed[i].match)[k].wrapped
           /\ IsTextNodeType(tree, CallsOf(handed[i].match)[k].node)
           /\ tree[CallsOf(handed[i].match)[k].node].data = <<>>
           /\ CallsOf(handed[i].match)[k].node > Len(tree0)

\* With wrap configured in first mode, a match of several portions was
\* replaced: its first portion was wrapped, its last one was not.
FirstModeWrappedOnce ==
  /\ opts.replace.kind = "str" /\ opts.portionMode = "first" /\ opts.wrap.kind # "none"
  /\ \E i \in ReplacedMatches :
       /\ Len(CallsOf(handed[i].match)) >= 2
       /\ CallsOf(handed[i].match)[1].wrapped
       /\ ~CallsOf(handed[i].match)[Len(CallsOf(handed[i].match))].wrapped

\* The calls whose replacement is a text: interpolated from the template, or
\* coerced from what the replace function returned.
ProducedText(c) ==
  /\ ~c.threw
  /\ \/ ReplaceOrDefault(opts).kind = "str"
     \/ ~CallReplaceFn(tree, ReplaceOrDefault(opts).fn, c.portion).isNode

\* The replacement node of call c is a wrapper made for this call alone: an
\* element created during the run, not the stencil node, of the wrap's name,
\* carrying wrapClass, and holding the produced text.
FreshWrapper(c) ==
  /\ c.wrapped
  /\ c.node > Len(tree0)
  /\ IsElementNodeType(tree, c.node)
  /\ c.node # opts.wrap.node
  /\ tree[c.node].tag = (IF opts.wrap.kind = "tag" THEN opts.wrap.tag
                         ELSE tree0[opts.wrap.node].tag)
  /\ opts.wrapClass # "" => tree[c.node].cls = opts.wrapClass
  /\ Len(tree[c.node].kids) = 1
  /\ IsTextNodeType(tree, tree[c.node].kids[1])
  /\ tree[tree[c.node].kids[1]].data = c.text

\* C14: with a wrap specification, the text produced for a portion, from the
\* template or coerced from a replace function's result, is nested in a
\* wrapper made for that portion alone, carrying wrapClass; an empty text
\* gives an empty text node and no wrapper.
WrapNestsProducedText ==
  opts.wrap.kind # "none" =>
    /\ \A i \in 1..Len(calls) :
         ProducedText(calls[i]) =>
           IF calls[i].text = <<>>
           THEN /\ ~calls[i].wrapped
                /\ IsTextNodeType(tree, calls[i].node)
                /\ tree[calls[i].node].data = <<>>
           ELSE FreshWrapper(calls[i])
    /\ \A i, j \in 1..Len(calls) :
         (i # j /\ calls[i].wrapped /\ calls[j].wrapped)
           => calls[i].node # calls[j].node

\* The same restricted to texts interpolated from a template, which holds.
WrapNestsTemplateText ==
  ReplaceOrDefault(opts).kind = "str" => WrapNestsProducedText

\* The document below n in document order: the characters of the text nodes,
\* with an opening and a closing mark for every element of the original
\* document; elements created during the run leave no mark.
RECURSIVE Interleave(_, _)
Interleave(t, n) ==
  IF IsTextNodeType(t, n)
  THEN [k \in 1..Len(t[n].data) |-> [ch |-> t[n].data[k], el |-> None]]
  ELSE Bind(Concat([k \in 1..Len(t[n].kids) |-> Interleave(t, t[n].kids[k])]),
            LAMBDA inner :
              IF n <= Len(tree0)
              THEN <<[ch |-> "<", el |-> n]>> \o inner \o <<[ch |-> ">", el |-> n]>>
              ELSE inner)

\* The text and the original elements interleave as in the original
\* document, every original element has its parent, and, until a revert,
\* every replaced portion's text stands under the parent of the portion's
\* node.
InterleavingKept ==
  /\ tree # tree0 =>
       /\ Interleave(tree, Root) = Interleave(tree0, Root)
       /\ \A e \in ElementsBelowRoot(tree0) :
            /\ e <= Len(tree)
            /\ tree[e].tag = tree0[e].tag
            /\ ParentNode(tree, e) = ParentNode(tree0, e)
  /\ nreverts = 0 =>
       \A i \in ReplacedMatches :
         \A k \in 1..Len(CallsOf(handed[i].match)) :
           ParentNode(tree, CallsOf(handed[i].match)[k].node)
             = ParentNode(handed[i].before,
                          CallsOf(handed[i].match)[k].portion.node)

\* Every replaced portion was replaced by its own text.
PiecesKeepText ==
  \A i \in 1..Len(calls) : calls[i].text = calls[i].portion.text

\* C15 as stated: with replace omitted, with or without wrap, the text of
\* the document and its interleaving with the original elements are
\* unchanged, and each matched piece stays in its parent.
DefaultReplacementKeepsInterleaving ==
  opts.replace = NoReplace => InterleavingKept

\* C15: the same under the default portion mode (retain), where moreover
\* every portion is replaced by its own text.
RetainedReplacementKeepsInterleaving ==
  (opts.replace = NoReplace /\ opts.portionMode = "retain") =>
    InterleavingKept /\ PiecesKeepText

\* With replace omitted and a wrap, in retain mode, a match whose portions
\* stand under different parents was replaced.
WrappedAcrossParents ==
  /\ opts.replace = NoReplace /\ opts.portionMode = "retain"
  /\ opts.wrap.kind # "none"
  /\ nreverts = 0
  /\ \E i \in ReplacedMatches :
       /\ CallsOf(handed[i].match) # <<>>
       /\ ParentNode(handed[i].before, handed[i].startPortion.node)
            # ParentNode(handed[i].before, handed[i].endPortion.node)
       /\ \A k \in 1..Len(CallsOf(handed[i].match)) :
            CallsOf(handed[i].match)[k].wrapped

\* C16: with a global pattern the N matches found carry the index values
\* 0, 1, ..., N-1 in the order of their discovery, which is the order of
\* their start offsets; the numbering runs on from one leaf to the next.
GlobalMatchIndexCounts ==
  (pc # "ready" /\ SearchRegex(opts.find).global) =>
    /\ \A i \in 1..Len(matches) : matches[i].index = i - 1
    /\ \A i \in 1..Len(matches) - 1 :
         matches[i].endIndex <= matches[i + 1].startIndex

\* A global search found a match in a later leaf than the match before it.
GlobalMatchesInSeveralLeaves ==
  /\ pc # "ready" /\ SearchRegex(opts.find).global
  /\ \E i \in 2..Len(matches) :
       \E e \in LeafEnds :
         /\ 0 < e /\ e < Len(MatchedStream)
         /\ matches[i - 1].endIndex <= e /\ e <= matches[i].startIndex
         /\ matches[i].index >= 1

\* C17: the k portions of every match handed to replaceMatch carry the index
\* values 0, 1, ..., k-1 in order, starting again at 0 for each match, and
\* the last of them, and no other, is flagged isEnd.
PortionIndexCountsPerMatch ==
  \A i \in 1..Len(handed) :
    \A k \in 1..Len(PortionsOf(handed[i])) :
      /\ PortionsOf(handed[i])[k].index = k - 1
      /\ PortionsOf(handed[i])[k].isEnd <=> k = Len(PortionsOf(handed[i]))

\* After a match of several portions, a match of a single portion and a
\* match of several portions were handed over.
SeveralPortionsAfterEarlierMatch ==
  \E i, j \in 2..Len(handed) :
    /\ Len(PortionsOf(handed[1])) >= 2
    /\ Len(PortionsOf(handed[i])) = 1
    /\ Len(PortionsOf(handed[j])) >= 2

\* The match and portion of every call of the replace function, in the
\* order of the calls.
CalledPortions ==
  [k \in 1..Len(calls) |-> [match |-> calls[k].match, portion |-> calls[k].portion]]

\* The portions of the matches handed to replaceMatch and not skipped by it,
\* match after match, in portion order.
PortionsInOrder ==
  Concat([i \in 1..Len(handed) |->
            IF handed[i].skipped THEN <<>>
            ELSE [k \in 1..Len(PortionsOf(handed[i])) |->
                    [match |-> matches[handed[i].match],
                     portion |-> PortionsOf(handed[i])[k]]]])

IndexInMatchIsOffset ==
  \A i \in 1..Len(handed) :
    \A k \in 1..Len(PortionsOf(handed[i])) :
      /\ PortionsOf(handed[i])[k].indexInMatch
           = Len(Concat([j \in 1..(k - 1) |-> PortionsOf(handed[i])[j].text]))
      /\ PortionsOf(handed[i])[k].text
           = Substring(matches[handed[i].match].m0,
                       PortionsOf(handed[i])[k].indexInMatch,
                       PortionsOf(handed[i])[k].indexInMatch
                         + Len(PortionsOf(handed[i])[k].text))

\* After a match that lies in a single node, a match was handed over whose
\* end portion starts two or more characters into the match, behind an
\* inner portion.
LatePortionAfterSingleNodeMatch ==
  \E i, j \in 1..Len(handed) :
    /\ j < i
    /\ Len(PortionsOf(handed[j])) = 1
    /\ handed[i].innerPortions # <<>>
    /\ handed[i].endPortion.indexInMatch >= 2

\* The text of the n-th group of match m, empty when the group did not
\* take part in the match.
Captured(m, n) == IF m.groups[n].def THEN m.groups[n].text ELSE <<>>

\* The text that replaced the i-th handed match: the texts of its portions'
\* replacements, in order.
ReplacementOf(i) ==
  Concat([k \in 1..Len(CallsOf(handed[i].match)) |->
            CallsOf(handed[i].match)[k].text])

\* C20: a group token of the template inserts the text the group captured,
\* and nothing when the group did not take part in the match; the tokens
\* $0 and $& insert the matched text.
GroupTokensInsertCaptures ==
  \A i \in ReplacedMatches :
    /\ opts.find = Regex(ReAOptB, TRUE) =>
         /\ Len(matches[handed[i].match].groups) = 2
         /\ matches[handed[i].match].groups[1].def
         /\ matches[handed[i].match].groups[2].def
              <=> Len(matches[handed[i].match].m0) = 2
         /\ Captured(matches[handed[i].match], 1)
              \o Captured(matches[handed[i].match], 2)
              = matches[handed[i].match].m0
    /\ opts.replace = Template(SwapTemplate) =>
         ReplacementOf(i) = Captured(matches[handed[i].match], 2)
                              \o Captured(matches[handed[i].match], 1)
    /\ opts.replace = Template(WholeTemplate) =>
         ReplacementOf(i) = matches[handed[i].match].m0 \o <<"c">>
                              \o matches[handed[i].match].m0

\* The group tokens replaced a match in which the second group did not take
\* part by the first group's text alone, and a match over two nodes in
\* which it did by both texts.
EmptyAndFilledGroupReplaced ==
  /\ opts.replace = Template(SwapTemplate)
  /\ \E i, j \in ReplacedMatches :
       /\ ~matches[handed[i].match].groups[2].def
       /\ ReplacementOf(i) = <<"a">>
       /\ matches[handed[j].match].groups[2].def
       /\ Len(PortionsOf(handed[j])) >= 2
       /\ ReplacementOf(j) = <<"b", "a">>

\* C21: revert is idempotent.  A revert() leaves the list of inverse
\* operations empty, and every revert() after the first changes nothing: the
\* document and the rest of the handle stay as they are.
RevertIsIdempotent ==
  [][/\ nreverts' > nreverts => reverts' = <<>>
     /\ nreverts >= 1 =>
          /\ reverts = <<>>
          /\ tree' = tree
          /\ <<opts, pc, matches, createdNodes>>' = <<opts, pc, matches, createdNodes>>]_vars

\* revert() was called twice on a handle whose run had replaced matches in
\* several nodes.
RevertedTwice ==
  /\ nreverts = 2
  /\ reverts = <<>>
  /\ \E i \in ReplacedMatches : Len(PortionsOf(handed[i])) >= 2
  /\ Cardinality(ReplacedMatches) >= 2

\* The 0-based positions of the occurrences of the literal str in leaf from
\* pos on, taken from left to right without overlap.
RECURSIVE LiteralStarts(_, _, _)
LiteralStarts(str, leaf, pos) ==
  IF pos + Len(str) > Len(leaf) THEN <<>>
  ELSE IF Substring(leaf, pos, pos + Len(str)) = str
  THEN <<pos>> \o LiteralStarts(str, leaf, pos + Len(str))
  ELSE LiteralStarts(str, leaf, pos + 1)

\* The stream offsets of the occurrences of str in the leaves from the k-th
\* on, the k-th leaf starting at offset.
RECURSIVE LiteralOffsets(_, _, _, _)
LiteralOffsets(str, leaves, k, offset) ==
  IF k > Len(leaves) THEN <<>>
  ELSE Bind(LiteralStarts(str, leaves[k], 0), LAMBDA starts :
         [j \in 1..Len(starts) |-> offset + starts[j]])
       \o LiteralOffsets(str, leaves, k + 1, offset + Len(leaves[k]))

MatchesOrderedAndDisjoint ==
  pc # "ready" =>
    /\ \A i \in 1..Len(matches) : matches[i].startIndex < matches[i].endIndex
    /\ \A i \in 1..Len(matches) - 1 :
         matches[i].endIndex <= matches[i + 1].startIndex
    /\ (handed = <<>> /\ nreverts = 0 /\ matches # <<>>) =>
         \E stream \in {MatchedStream} :
           \A i \in 1..Len(matches) :
             /\ matches[i].endIndex <= Len(stream)
             /\ matches[i].m0
                  = Substring(stream, matches[i].startIndex, matches[i].endIndex)

\* A global search returned three matches, the first two touching and the
\* third beyond the end of a later leaf.
TouchingMatchesThenLaterLeaf ==
  /\ pc # "ready" /\ SearchRegex(opts.find).global
  /\ Len(matches) >= 3
  /\ matches[1].endIndex = matches[2].startIndex
  /\ \E e \in LeafEnds :
       matches[2].endIndex <= e /\ e <= matches[3].startIndex

\* The offset, in the stream the search ran on, of the first character of
\* text node n: for a node of the original document, the length of the text
\* read before it; for a following leftover, the offset of the node it was
\* split from plus the length of the text before the leftover.  -1 for a
\* node that is neither.
RECURSIVE NodeStart(_)
NodeStart(n) ==
  IF n <= Len(tree0)
  THEN Bind(ReadTexts(tree0, opts, Root), LAMBDA read :
         IF n \in Range(read)
         THEN Len(Concat([k \in 1..(IndexOf(read, n) - 1) |-> tree0[read[k]].data]))
         ELSE -1)
  ELSE LET from == {r \in Range(reverts) :
                      \/ r.kind = "single" /\ r.fol = n
                      \/ r.kind = "multi" /\ (r.eFol = n \/ r.sFol = n)}
       IN  IF from = {} THEN -1
           ELSE Bind(The(from), LAMBDA r :
                  Bind(IF r.kind = "single" THEN r.node
                       ELSE IF r.eFol = n THEN r.eNode ELSE r.sNode,
                       LAMBDA orig :
                         NodeStart(orig) + Len(tree[orig].data) - Len(tree[n].data)))

\* The loop of processMatches is about to examine a text node that it did
\* not create as a replacement, with a match pending.
ExaminesText ==
  /\ Looping
  /\ pm.mi <= Len(matches)
  /\ pm.curNode \notin createdNodes
  /\ IsTextNodeType(tree, pm.curNode)

\* C24: whenever processMatches examines a text node that is not a
\* replacement node, atIndex is the offset of the node's first character in
\* the stream the search ran on; the replacement nodes of earlier matches do
\* not move the cursor.
CursorAligned ==
  ExaminesText => pm.atIndex = NodeStart(pm.curNode)

\* After two matches were replaced, the second without a following
\* leftover, the loop examines a text node of the original document that
\* does not start the stream.
ExaminesOriginalAfterReplacements ==
  /\ ExaminesText
  /\ pm.mi >= 3
  /\ pm.curNode <= Len(tree0)
  /\ pm.atIndex > matches[pm.mi - 1].endIndex
  /\ pm.atIndex = NodeStart(pm.curNode)

\* After a match was replaced the loop examines its following leftover.
ExaminesFollowingLeftover ==
  /\ ExaminesText
  /\ pm.curNode > Len(tree0)
  /\ pm.atIndex = matches[pm.mi - 1].endIndex

\* What stands at one place of a children list after the i-th call of
\* replaceMatch: a node that was there before the call (old), the
\* replacement node made for the portion of node id (repl), a text node
\* made by the call (left, with its text), or something else.
PlaceAfter(i, k) ==
  IF k <= Len(handed[i].before)
  THEN [kind |-> "old", id |-> k, data |-> <<>>]
  ELSE IF \E c \in Range(CallsOf(handed[i].match)) : c.node = k
  THEN [kind |-> "repl",
        id |-> The({c.portion.node : c \in {d \in Range(CallsOf(handed[i].match)) :
                                             d.node = k}}),
        data |-> <<>>]
  ELSE IF IsTextNodeType(tree, k)
  THEN [kind |-> "left", id |-> None, data |-> tree[k].data]
  ELSE [kind |-> "other", id |-> k, data |-> <<>>]

\* What is to stand in the place of child k: k itself when no portion of the
\* match lies in it; otherwise a leftover with the text before the portion
\* if there is any, the replacement node, and a leftover with the text after
\* the portion if there is any.
PlacesExpected(i, k) ==
  IF k \notin PortionNodes(handed[i])
  THEN <<[kind |-> "old", id |-> k, data |-> <<>>]>>
  ELSE Bind(The({p \in Range(PortionsOf(handed[i])) : p.node = k}), LAMBDA p :
         LET data == handed[i].before[k].data
             pre  == Substring(data, 0, p.indexInNode)
             fol  == SubstringFrom(data, p.endIndexInNode)
         IN  (IF pre # <<>> THEN <<[kind |-> "left", id |-> None, data |-> pre]>>
              ELSE <<>>)
             \o <<[kind |-> "repl", id |-> k, data |-> <<>>]>>
             \o (IF fol # <<>> THEN <<[kind |-> "left", id |-> None, data |-> fol]>>
                 ELSE <<>>))

\* The shape the i-th call of replaceMatch leaves: every children list is
\* the list before the call with each portion's node replaced as expected,
\* each portion's text is its node's text between the two leftover texts,
\* and the portions' nodes are detached.
ShapeAfter(i) ==
  /\ \E touched \in {PortionNodes(handed[i])} :
       \A parent \in 1..Len(handed[i].before) :
         \/ /\ tree[parent].kids = handed[i].before[parent].kids
            /\ \A k \in 1..Len(tree[parent].kids) :
                 tree[parent].kids[k] \notin touched
         \/ [k \in 1..Len(tree[parent].kids) |-> PlaceAfter(i, tree[parent].kids[k])]
              = Concat([k \in 1..Len(handed[i].before[parent].kids) |->
                          PlacesExpected(i, handed[i].before[parent].kids[k])])
  /\ \A p \in Range(PortionsOf(handed[i])) :
       /\ ParentNode(tree, p.node) = None
       /\ handed[i].before[p.node].data
            = Substring(handed[i].before[p.node].data, 0, p.indexInNode)
                \o p.text
                \o SubstringFrom(handed[i].before[p.node].data, p.endIndexInNode)

\* C25: after a match was replaced, the place of each text node it touched
\* holds, in this order, a preceding leftover if the text before the match
\* is not empty, one replacement node, and a following leftover if the text
\* after the match is not empty; inner nodes are replaced one for one; the
\* touched nodes are detached.  (The document is compared before any later
\* call changes it.)
SurgeryShape ==
  (nreverts = 0 /\ Len(handed) \in ReplacedMatches) => ShapeAfter(Len(handed))

\* After a match inside one node that left a leftover on both sides, a match
\* over several nodes was replaced, leaving a following leftover behind its
\* end node.
SplitAroundSeveralNodes ==
  /\ nreverts = 0 /\ Len(handed) \in ReplacedMatches
  /\ Len(PortionsOf(handed[Len(handed)])) >= 2
  /\ handed[Len(handed)].endPortion.endIndexInNode
       < Len(handed[Len(handed)].before[handed[Len(handed)].endPortion.node].data)
  /\ \E i \in ReplacedMatches :
       /\ Len(PortionsOf(handed[i])) = 1
       /\ handed[i].endPortion.indexInNode > 0
       /\ handed[i].endPortion.endIndexInNode
            < Len(handed[i].before[handed[i].endPortion.node].data)
  /\ ShapeAfter(Len(handed))

\* The offset in the stream of the first character of the k-th text node of
\* read, the text nodes of the original document the search read.
RECURSIVE SpanStart(_, _)
SpanStart(read, k) ==
  IF k = 1 THEN 0
  ELSE SpanStart(read, k - 1) + Len(tree0[read[k - 1]].data)

\* The text nodes of the original document that no match touches: those the
\* search did not read, and those whose span in the stream ends no later
\* than the match starts or starts no earlier than it ends, for every match.
FrameTextNodes ==
  Bind(ReadTexts(tree0, opts, Root), LAMBDA read :
    {n \in 1..Len(tree0) : IsTextNodeType(tree0, n) /\ n \notin Range(read)}
    \cup {read[k] : k \in {j \in 1..Len(read) :
             \E start \in {SpanStart(read, j)} :
               \A i \in 1..Len(matches) :
                 \/ start + Len(tree0[read[j]].data) <= matches[i].startIndex
                 \/ start >= matches[i].endIndex}})

\* The element nodes of the original document.
OriginalElements == {n \in 1..Len(tree0) : IsElementNodeType(tree0, n)}

\* C26: a text node that no match touches, an empty text node next to a
\* match included, stays in the tree with its parent, its place among the
\* original nodes and its text; no element of the original document is
\* removed, replaced or moved.  Every node, created ones included, has
\* among its children exactly the untouched nodes it had originally, in the
\* original order.
FrameKept ==
  (pc # "ready" /\ tree # tree0) =>
    \E kept \in {FrameTextNodes \cup OriginalElements} :
      /\ \A n \in kept :
           /\ tree[n].kind = tree0[n].kind
           /\ tree[n].tag = tree0[n].tag
           /\ tree[n].data = tree0[n].data
      /\ \A parent \in 1..Len(tree) :
           SelectSeq(tree[parent].kids, LAMBDA k : k \in kept)
             = IF parent <= Len(tree0)
               THEN SelectSeq(tree0[parent].kids, LAMBDA k : k \in kept)
               ELSE <<>>

\* find returned after replacing a match next to an empty text node, which
\* is still in its place.
EmptyTextNodeNextToMatch ==
  /\ pc = "returned" /\ nreverts = 0
  /\ \E i \in ReplacedMatches :
       \E n \in FrameTextNodes :
         /\ tree0[n].data = <<>>
         /\ IsInclusiveDescendant(tree0, n, Root)
         /\ NodeStart(n) = matches[handed[i].match].endIndex
         /\ ParentNode(tree, n) = ParentNode(tree0, n)

\* C27: when find returns normally, every match of the search has been
\* handed to replaceMatch exactly once, in ascending start offset, and has
\* been replaced in the tree.
EveryMatchHandedAndReplaced ==
  (pc = "returned" /\ nreverts = 0) =>
    /\ Len(handed) = Len(matches)
    /\ \A i \in 1..Len(handed) :
         /\ handed[i].match = i
         /\ ~handed[i].skipped
         /\ ~handed[i].threw
         /\ \A n \in PortionNodes(handed[i]) : ParentNode(tree, n) = None

\* C28: the node-local offsets of every portion handed to replaceMatch lie
\* inside the text of its node, 0 <= indexInNode <= endIndexInNode <= length,
\* and the portion's text is the node's text between the two offsets.
PortionOffsetsInsideNode ==
  \A i \in 1..Len(handed) :
    \A k \in 1..Len(PortionsOf(handed[i])) :
      \E p \in {PortionsOf(handed[i])[k]} :
        \E data \in {handed[i].before[p.node].data} :
          /\ 0 <= p.indexInNode
          /\ p.indexInNode <= p.endIndexInNode
          /\ p.endIndexInNode <= Len(data)
          /\ p.text = SubSeq(data, p.indexInNode + 1, p.endIndexInNode)

\* The nodes of the original document outside the root's subtree.
OutsideRoot == (1..Len(tree0)) \ Below(tree0, Root)

\* C30: while processMatches runs, the current node is the root or a
\* descendant of the root; no text node outside the root's subtree is read
\* into the stream, and no node outside it is changed or gets a new child,
\* although the root has a following sibling.
CursorStaysUnderRoot ==
  /\ Looping => IsInclusiveDescendant(tree, pm.curNode, Root)
  /\ pc # "ready" =>
       \A n \in 1..Len(tree0) : tree[n] # tree0[n] => n \notin OutsideRoot
  /\ (pc = "processing" /\ handed = <<>> /\ nreverts = 0) =>
       \A n \in Range(ReadTexts(tree0, opts, Root)) : n \notin OutsideRoot

\* The loop has popped out of an element onto the last child of the root,
\* with a match replaced and another pending; the root has a following
\* sibling.
CursorAtLastChildOfRoot ==
  /\ Looping
  /\ handed # <<>>
  /\ ~handed[Len(handed)].skipped
  /\ pm.mi <= Len(matches)
  /\ ParentNode(tree, pm.curNode) = Root
  /\ NextSibling(tree, pm.curNode) = None
  /\ NextSibling(tree, Root) # None
  /\ \E e \in OriginalElements :
       /\ NextSibling(tree, e) = pm.curNode
       /\ tree[e].kids # <<>>

\* Whether the original document has an element below the root that the
\* filter rejects.
SomeElementAvoided ==
  /\ opts.filterElements.set
  /\ \E e \in ElementsBelowRoot(tree0) : Avoided(opts, tree0[e])

\* C29: the leaves of the aggregation, concatenated in order, are the text
\* of the text nodes under the root that are not inside a filtered element,
\* in document order, whatever filterElements and forceContext are; and the
\* traversal examines only those text nodes.
LeavesAreVisibleText ==
  /\ (pc # "ready" /\ handed = <<>> /\ nreverts = 0
        /\ (pc = "processing" => pm.curNode = Root)) =>
       \E read \in {ReadTexts(tree0, opts, Root)} :
         Concat(ScannedLeaves) = Concat([k \in 1..Len(read) |-> tree0[read[k]].data])
  /\ (Looping /\ pm.curNode <= Len(tree0) /\ IsTextNodeType(tree, pm.curNode)
        /\ SomeElementAvoided) =>
       pm.curNode \in Range(ReadTexts(tree0, opts, Root))

\* The aggregation of a document with text inside a filtered element and
\* inside a force-context element has several leaves, and the traversal is
\* at a text node behind the filtered element.
LeavesOverFilteredAndForced ==
  /\ Looping
  /\ Len(ScannedLeaves) >= 2
  /\ IsTextNodeType(tree, pm.curNode)
  /\ pm.curNode <= Len(tree0)
  /\ \E e \in ElementsBelowRoot(tree0) :
       /\ Avoided(opts, tree0[e])
       /\ e < pm.curNode
       /\ \E n \in SubtreeOf(e) : IsTextNodeType(tree0, n) /\ tree0[n].data # <<>>
  /\ \E e \in ElementsBelowRoot(tree0) :
       /\ Forced(opts, tree0[e])
       /\ \E n \in SubtreeOf(e) : IsTextNodeType(tree0, n) /\ tree0[n].data # <<>>
  /\ \E read \in {ReadTexts(tree0, opts, Root)} :
       Concat(ScannedLeaves) = Concat([k \in 1..Len(read) |-> tree0[read[k]].data])

\* The constructor runs to its end once it is called: the loop of
\* processMatches goes on for as long as it can take a step that changes
\* its state.  revert() is called by the caller and is not forced.
ConstructorStep == Find \/ Walk \/ Replace \/ Skip \/ ReplaceThrows \/ Return

LiveSpec == Init /\ [][Next]_vars /\ WF_vars(ConstructorStep)

\* C31: find terminates: once processMatches runs, the loop eventually
\* exits, and the constructor returns or raises; no iteration leaves the
\* loop at the same node with the same locals forever.
FindTerminates == (pc = "processing") ~> (pc \in {"returned", "threw"})

\* find returned after the loop replaced two matches and, in between, skipped
\* a node it created and popped out of an element.
ReturnedAfterPops ==
  /\ pc = "returned" /\ nreverts = 0
  /\ Cardinality(ReplacedMatches) >= 2
  /\ pm.done
  /\ \E i \in ReplacedMatches :
       /\ i < Len(handed)
       /\ ParentNode(handed[i].before, handed[i].endPortion.node) # Root
       /\ ParentNode(handed[i + 1].before, handed[i + 1].startPortion.node)
            # ParentNode(handed[i].before, handed[i].endPortion.node)
       /\ handed[i].endPortion.endIndexInNode
            = Len(handed[i].before[handed[i].endPortion.node].data)

\* The document after the k most recent of the recorded inverse operations
\* were run on t, the most recent first, each once.
RECURSIVE UndoneLastFirst(_, _)
UndoneLastFirst(t, k) ==
  IF k = Len(reverts) THEN t
  ELSE Bind(RunRevert(t, reverts[Len(reverts) - k]), LAMBDA t1 :
         UndoneLastFirst(t1, k + 1))

\* C32: revert runs the recorded inverse operations from the most recently
\* created to the earliest, each exactly once, and then clears the record:
\* the document after a revert is the document with the operations undone
\* in that order, and the record is empty.
RevertRunsLastFirst ==
  [][nreverts' > nreverts =>
       /\ tree' = UndoneLastFirst(tree, 0)
       /\ reverts' = <<>>]_vars

\* A revert restored the document after a later match had replaced the
\* following leftover of an earlier match in the same text node.
RevertedMatchInLeftover ==
  /\ nreverts = 1
  /\ reverts = <<>>
  /\ \E i \in ReplacedMatches :
       /\ i + 1 \in ReplacedMatches
       /\ handed[i + 1].startPortion.node > Len(tree0)
       /\ handed[i + 1].startPortion.node \notin createdNodes
       /\ handed[i + 1].startPortion.node = handed[i + 1].endPortion.node
  /\ SubSeq(tree, 1, Len(tree0)) = tree0

(***************************************************************************)
(* A second find() on the root the first one rewrote.                      *)
(***************************************************************************)
\* The while loop of processMatches run to its end from the locals l: the
\* document it leaves and the inverse operations it pushed on this.reverts.
RECURSIVE processMatches(_, _, _, _, _, _)
processMatches(t, o, ms, created, l, rvs) ==
  IF l.curNode = None \/ l.done THEN [t |-> t, reverts |-> rvs]
  ELSE Bind(Iteration(t, o, Root, ms, created, l, 0), LAMBDA it :
         IF it.hit /\ ~it.out.skipped
         THEN processMatches(it.out.t, o, ms, created \cup it.out.created, it.l,
                             rvs \o it.out.reverts)
         ELSE processMatches(t, o, ms, created, it.l, rvs))

\* new Finder(node, options) on the document t: search, then processMatches
\* when there is a match.
Finder(t, o) ==
  Bind(search(t, EffectiveOptions(o), Root), LAMBDA r :
    IF r.threw THEN [t |-> t, reverts |-> <<>>, threw |-> TRUE]
    ELSE IF Len(r.matches) = 0 THEN [t |-> t, reverts |-> <<>>, threw |-> FALSE]
    ELSE Bind(processMatches(t, EffectiveOptions(o), r.matches, {},
                             InitialLocals(Root), <<>>),
              LAMBDA run : [t |-> run.t, reverts |-> run.reverts, threw |-> FALSE]))

\* The options of the second find(): those of the first one.
SecondOptions == {options}

\* find() is called again on the same root once the first call returned with
\* the root rewritten, and returns the handle h2.
FindAgain ==
  /\ pc = "returned"
  /\ nreverts = 0
  /\ reverts # <<>>
  /\ h2.state = "none"
  /\ \E o \in SecondOptions :
       \E f \in {Finder(tree, o)} :
         /\ ~f.threw
         /\ tree' = f.t
         /\ h2' = [state |-> "returned", reverts |-> f.reverts, ran |-> <<>>,
                   last |-> FALSE]
  /\ UNCHANGED <<options, opts, pc, matches, pm, createdNodes, reverts, nreverts,
                 tree0, calls, handed>>

\* h2.revert() with a loop that walks this.reverts forwards.
RevertLaterInOrder ==
  /\ h2.state = "returned"
  /\ nreverts < MaxReverts
  /\ tree' = RunRevertsInOrder(tree, h2.reverts, Len(h2.reverts))
  /\ h2' = [state |-> "reverted", reverts |-> <<>>, ran |-> h2.reverts,
            last |-> nreverts = 0]
  /\ nreverts' = nreverts + 1
  /\ UNCHANGED <<options, opts, pc, matches, pm, createdNodes, reverts, tree0,
                 calls, handed>>

\* h2.revert(), one of the revert() calls nreverts counts; ran keeps the
\* inverse operations it ran, and last whether it ran before any revert() of
\* the first handle (the handle made last is reverted first).
RevertLater ==
  /\ h2.state = "returned"
  /\ nreverts < MaxReverts
  /\ tree' = RunReverts(tree, h2.reverts, Len(h2.reverts))
  /\ h2' = [state |-> "reverted", reverts |-> <<>>, ran |-> h2.reverts,
            last |-> nreverts = 0]
  /\ nreverts' = nreverts + 1
  /\ UNCHANGED <<options, opts, pc, matches, pm, createdNodes, reverts, tree0,
                 calls, handed>>

\* revert() on the first handle once the second find() was made, before or
\* after h2.revert().
RevertFirst ==
  /\ h2.state # "none"
  /\ Revert

NextTwice ==
  \/ Find
  \/ Walk
  \/ Replace
  \/ Skip
  \/ ReplaceThrows
  \/ Return
  \/ FindAgain
  \/ RevertLater
  \/ RevertFirst

TwiceSpec == Init /\ [][NextTwice]_vars

\* C33: when a second find() ran on the root the first one had rewritten, and
\* its handle was reverted before the first handle, every node of the original
\* document is back as it was once the first handle is reverted too: the same
\* node under the same id, with its text and its children in their order.
RevertsCompose ==
  (h2.state = "reverted" /\ h2.last /\ nreverts >= 2)
    => \A n \in 1..Len(tree0) : tree[n] = tree0[n]

\* Both handles reverted last first, where the second find() had replaced text
\* in a node the first one made.
BothRevertedOverCreatedNode ==
  /\ h2.state = "reverted"
  /\ h2.last
  /\ nreverts = 2
  /\ \E i \in 1..Len(h2.ran) :
       /\ h2.ran[i].kind = "single"
       /\ h2.ran[i].node > Len(tree0)
  /\ \A n \in 1..Len(tree0) : tree[n] = tree0[n]

====
